---- MODULE Spec2Model ----
(***************************************************************************)
(* Budget / expense tracker: the expense and budget request handlers, the  *)
(* Mongoose models behind them and the budget ledger figures, as a state   *)
(* machine over the stored documents.                                      *)
(***************************************************************************)
EXTENDS Integers, FiniteSets, Sequences, TLC

(* ------------------------------------------------------------------ *)
(* Bounds of the model                                                 *)
(* ------------------------------------------------------------------ *)

\* The clock runs over 0..MaxTime.
MaxTime == 1

\* Number of expense documents ever created in one behaviour.
MaxExpenses == 2

\* Number of budget documents ever created in one behaviour.
MaxBudgets == 2

(* ------------------------------------------------------------------ *)
(* Program constants                                                   *)
(* ------------------------------------------------------------------ *)

\* maxlength of Expense.rejectionReason
MaxReasonLength == 200

\* default of Budget.alertThreshold
DefaultAlertThreshold == 80

ExpenseStatuses == {"pending", "approved", "rejected", "reimbursed"}

BudgetStatuses == {"draft", "pending", "approved", "rejected", "active", "expired"}

Roles == {"admin", "manager", "user"}

(* ------------------------------------------------------------------ *)
(* Users of the store (fixed population)                               *)
(* ------------------------------------------------------------------ *)

Users == {"u1", "m1", "a1"}

Role(u) == CASE u = "u1" -> "user" [] u = "m1" -> "manager" [] OTHER -> "admin"

Department(u) == IF u = "a1" THEN "d2" ELSE "d1"

(* ------------------------------------------------------------------ *)
(* Absent values                                                       *)
(* ------------------------------------------------------------------ *)

NoUser == "none"

NoDate == 0 - 1

NoBudget == 0

\* A string value is its trimmed length and whether it carries surrounding
\* whitespace; len < 0 is undefined (the field is missing).
NoReason == [len |-> 0 - 1, ws |-> FALSE]

Has(body, f) == f \in DOMAIN body

Get(body, f, d) == IF f \in DOMAIN body THEN body[f] ELSE d

\* String.prototype.trim / the schema's trim setter
Trim(s) == [len |-> s.len, ws |-> FALSE]

\* JavaScript truthiness of a string value: undefined and "" are falsy,
\* a whitespace-only string is truthy.
Truthy(s) == s.len > 0 \/ (s.len = 0 /\ s.ws)

VARIABLES now, budgets, expenses, nextExpenseId, nextBudgetId, res, outbox, alertEval,
          exchangeRatesCache, uploadDir, inflight

vars == <<now, budgets, expenses, nextExpenseId, nextBudgetId, res, outbox, alertEval,
          exchangeRatesCache, uploadDir, inflight>>

\* State outside the document store that the expense and budget controllers
\* never touch: the rate cache, the upload directory, and the requests that
\* are being served step by step.
elsewhere == <<exchangeRatesCache, uploadDir, inflight>>

store == <<now, budgets, expenses, nextExpenseId, nextBudgetId>>

(* ------------------------------------------------------------------ *)
(* Ledger figures                                                      *)
(* ------------------------------------------------------------------ *)

RECURSIVE SumAmount(_, _)
\* expenses.reduce((total, expense) => total + expense.amount, 0)
SumAmount(es, S) ==
  IF S = {} THEN 0
  ELSE LET x == CHOOSE y \in S : TRUE
       IN es[x].amount + SumAmount(es, S \ {x})

RECURSIVE SumConverted(_, _)
\* expenses.reduce((total, e) => total + (e.convertedAmount || e.amount), 0)
SumConverted(es, S) ==
  IF S = {} THEN 0
  ELSE LET x == CHOOSE y \in S : TRUE
           v == IF es[x].convertedAmount # 0 THEN es[x].convertedAmount ELSE es[x].amount
       IN v + SumConverted(es, S \ {x})

\* Mutant of FindApproved: the status filter is dropped.
FindLinked(es, bid) == {e \in DOMAIN es : es[e].budget = bid}

\* Expense.find({ budget: id, status: 'approved' })
FindApproved(es, bid) == {e \in DOMAIN es : es[e].budget = bid /\ es[e].status = "approved"}

\* Mutant of MathRound: the quotient is truncated.
MathTrunc(x, y) == x \div y

\* Math.round(x / y) for x >= 0, y > 0: halves round up.
MathRound(x, y) == (2 * x + y) \div (2 * y)

\* budget.amount > 0 ? Math.round((spentAmount / budget.amount) * 100) : 0
Percentage(amount, spent) == IF amount > 0 THEN MathRound(100 * spent, amount) ELSE 0

\* getBudget: spentAmount of the response
getBudgetSpent(es, bid) == SumAmount(es, FindApproved(es, bid))

\* getBudgets: spentAmount of each returned budget
getBudgetsSpent(es, bid) == SumAmount(es, FindApproved(es, bid))

\* getBudgetAnalytics: spentAmount added to totalSpent for each budget
getBudgetAnalyticsSpent(es, bid) == SumAmount(es, FindApproved(es, bid))

\* checkBudgetAlert: spentAmount handed to the alert
checkBudgetAlertSpent(es, bid) == SumAmount(es, FindApproved(es, bid))

\* Budget.methods.calculateSpentAmount
calculateSpentAmount(es, bid) ==
  SumConverted(es, {e \in DOMAIN es : es[e].budget = bid
                                       /\ es[e].status \in {"approved", "reimbursed"}})

\* Budget virtual usagePercentage, over a given spent amount
usagePercentage(amount, spent) == IF amount = 0 THEN 0 ELSE MathRound(100 * spent, amount)

\* Budget virtual isOverThreshold
isOverThreshold(b, spent) == usagePercentage(b.amount, spent) >= b.alertThreshold

\* checkBudgetAlert: the percentage compared with the threshold
checkBudgetAlertPercentage(bs, es, bid) == Percentage(bs[bid].amount, checkBudgetAlertSpent(es, bid))

\* Mutant of checkBudgetAlertFires: the threshold itself does not fire.
checkBudgetAlertFiresAbove(bs, es, bid) ==
  /\ bid \in DOMAIN bs
  /\ checkBudgetAlertPercentage(bs, es, bid) > bs[bid].alertThreshold

\* checkBudgetAlert: whether sendBudgetAlert is called
checkBudgetAlertFires(bs, es, bid) ==
  /\ bid \in DOMAIN bs
  /\ checkBudgetAlertPercentage(bs, es, bid) >= bs[bid].alertThreshold

\* The messages checkBudgetAlert hands to the notification sender
checkBudgetAlert(bs, es, bid) ==
  IF checkBudgetAlertFires(bs, es, bid)
  THEN {[kind |-> "budgetAlert", to |-> bs[bid].owner, ref |-> bid, info |-> "alert"]}
  ELSE {}

\* The budget an alert evaluation ran for (none when the budget is not found)
AlertEvaluated(bs, bid) == IF bid \in DOMAIN bs THEN bid ELSE NoBudget

\* sendExpenseNotification(user, expense, action)
sendExpenseNotification(u, eid, action) ==
  {[kind |-> "expenseNotification", to |-> u, ref |-> eid, info |-> action]}

\* Mutant of SenderThrows: a failed send is thrown to the caller.
SenderThrowsOnFailure(failed) == failed # {}

\* sendExpenseNotification, sendBudgetAlert: try { ... sendMail } catch (error)
\* { console.error(...) }; checkBudgetAlert catches once more. Whatever sends
\* fail, nothing is thrown to the controller.
SenderThrows(failed) == FALSE

\* The messages handed to the sender by one request; those whose send failed
\* carry the error the sender logs.
Handed(msgs, failed) ==
  {IF m \in failed
   THEN [kind |-> m.kind, to |-> m.to, ref |-> m.ref, info |-> m.info, error |-> "logged"]
   ELSE m : m \in msgs}

(* ------------------------------------------------------------------ *)
(* Responses                                                           *)
(* ------------------------------------------------------------------ *)

\* res.status(code).json({ message, data }): ref is the _id of the returned
\* document, 0 when the response carries none.
Response(op, code, message, ref) == [op |-> op, code |-> code, message |-> message, ref |-> ref]

\* An early return: the response is sent, nothing is stored or mailed.
Refuse(op, code, message) ==
  /\ res' = Response(op, code, message, 0)
  /\ outbox' = {}
  /\ alertEval' = NoBudget
  /\ UNCHANGED <<elsewhere, store>>

IsError(code) == code >= 400


(* ------------------------------------------------------------------ *)
(* Expense model (schema, pre-save hook)                               *)
(* ------------------------------------------------------------------ *)

ExpenseFields ==
  {"amount", "exchangeRate", "convertedAmount", "date", "budget", "status", "submittedBy",
   "department", "approvedBy", "approvalDate", "rejectionReason", "auditLog", "receipts"}

\* The schema's validators: enum of status, min of amount and exchangeRate,
\* maxlength of rejectionReason.
ExpenseSchemaValid(doc) ==
  /\ doc.status \in ExpenseStatuses
  /\ doc.amount >= 0
  /\ doc.exchangeRate >= 0
  /\ doc.rejectionReason.len <= MaxReasonLength

\* this.amount * (this.exchangeRate || 1)
ConvertAmount(amount, rate) == amount * (IF rate # 0 THEN rate ELSE 1)

\* expenseSchema.pre('save'): approval date, converted amount
ExpensePreSave(doc, modified, t) ==
  LET dated == IF "status" \in modified /\ doc.status = "approved" /\ doc.approvalDate = NoDate
               THEN [doc EXCEPT !.approvalDate = t]
               ELSE doc
  IN IF "amount" \in modified \/ "exchangeRate" \in modified
     THEN [dated EXCEPT !.convertedAmount = ConvertAmount(dated.amount, dated.exchangeRate)]
     ELSE dated

\* expenseSchema.methods.addAuditLog(action, performedBy): called by the receipt
\* handlers only, by none of the expense or budget controllers.
addAuditLog(doc, action, performedBy, t) ==
  [doc EXCEPT !.auditLog = Append(@, [action |-> action, performedBy |-> performedBy, timestamp |-> t])]

\* The document Expense.create(req.body) builds: every schema path the body
\* carries is taken, the others get the schema defaults.
NewExpense(actor, body, t) ==
  [amount          |-> body.amount,
   exchangeRate    |-> Get(body, "exchangeRate", 1),
   convertedAmount |-> Get(body, "convertedAmount", body.amount),
   date            |-> Get(body, "date", t),
   budget          |-> Get(body, "budget", NoBudget),
   status          |-> Get(body, "status", "pending"),
   submittedBy     |-> actor,
   department      |-> Get(body, "department", Department(actor)),
   approvedBy      |-> Get(body, "approvedBy", NoUser),
   approvalDate    |-> Get(body, "approvalDate", NoDate),
   rejectionReason |-> Trim(Get(body, "rejectionReason", NoReason)),
   auditLog        |-> Get(body, "auditLog", <<>>),
   receipts        |-> Get(body, "receipts", {})]

\* findByIdAndUpdate(id, req.body): the paths of the body replace the stored
\* ones (string setters applied); no save hook runs.
UpdatedExpense(doc, body) ==
  [f \in ExpenseFields |->
     IF f \in DOMAIN body
     THEN (IF f = "rejectionReason" THEN Trim(body[f]) ELSE body[f])
     ELSE doc[f]]

(* ------------------------------------------------------------------ *)
(* Expense routes: validation chains and role guard                    *)
(* ------------------------------------------------------------------ *)

\* expenseValidation (amount is a float >= 0; status is not looked at)
expenseValidation(body) == Has(body, "amount") /\ body.amount >= 0

\* updateExpenseValidation
updateExpenseValidation(body) ==
  /\ Has(body, "amount") => body.amount >= 0
  /\ Has(body, "status") => body.status \in ExpenseStatuses

\* reviewValidation: its result is never read by reviewExpense; what remains
\* is the sanitizer, which trims rejectionReason when status equals rejected.
reviewValidation(body) ==
  IF Get(body, "status", "") = "rejected" /\ Has(body, "rejectionReason")
  THEN [body EXCEPT !.rejectionReason = Trim(body.rejectionReason)]
  ELSE body

\* authorize(...roles)
authorize(roles, actor) == Role(actor) \in roles

(* ------------------------------------------------------------------ *)
(* Expense controller                                                  *)
(* ------------------------------------------------------------------ *)

\* getExpenses: the role filter of the query
ExpenseQuery(actor, doc) ==
  CASE Role(actor) = "user" -> doc.submittedBy = actor
    [] Role(actor) = "manager" -> doc.submittedBy = actor \/ doc.department = Department(actor)
    [] OTHER -> TRUE

\* getExpenses without further filters: data holds the _id of each returned
\* expense.
getExpenses(actor) ==
  /\ res' = [op |-> "getExpenses", code |-> 200, message |-> "ok", ref |-> 0,
             data |-> {e \in DOMAIN expenses : ExpenseQuery(actor, expenses[e])}]
  /\ outbox' = {}
  /\ alertEval' = NoBudget
  /\ UNCHANGED <<elsewhere, store>>

getExpense(actor, id) ==
  IF id \notin DOMAIN expenses
  THEN Refuse("getExpense", 404, "Expense not found")
  ELSE IF Role(actor) = "user" /\ expenses[id].submittedBy # actor
  THEN Refuse("getExpense", 403, "Not authorized to access this expense")
  ELSE /\ res' = Response("getExpense", 200, "ok", id)
       /\ outbox' = {}
       /\ alertEval' = NoBudget
       /\ UNCHANGED <<elsewhere, store>>

\* createExpense: budget.status !== 'active' && budget.status !== 'approved'
BudgetNotActive(b) == b.status # "active" /\ b.status # "approved"

\* Mutant of OutsideBudgetPeriod: the end of the period is not looked at.
OutsideBudgetPeriodStartOnly(b, expenseDate) == expenseDate < b.startDate

\* createExpense: expenseDate < budget.startDate || expenseDate > budget.endDate
OutsideBudgetPeriod(b, expenseDate) == expenseDate < b.startDate \/ expenseDate > b.endDate

createExpense(actor, body) ==
  LET bid == Get(body, "budget", NoBudget)
      expenseDate == Get(body, "date", now)
      doc == ExpensePreSave(NewExpense(actor, body, now), ExpenseFields, now)
      id  == nextExpenseId
      es  == [e \in DOMAIN expenses \cup {id} |-> IF e = id THEN doc ELSE expenses[e]]
  IN IF ~expenseValidation(body)
     THEN Refuse("createExpense", 400, "Validation failed")
     ELSE IF bid # NoBudget /\ bid \notin DOMAIN budgets
     THEN Refuse("createExpense", 400, "Budget not found")
     ELSE IF bid # NoBudget /\ BudgetNotActive(budgets[bid])
     THEN Refuse("createExpense", 400, "Budget is not active")
     ELSE IF bid # NoBudget /\ OutsideBudgetPeriod(budgets[bid], expenseDate)
     THEN Refuse("createExpense", 400, "Expense date is outside budget period")
     ELSE IF ~ExpenseSchemaValid(doc)
     THEN Refuse("createExpense", 500, "error")
     ELSE /\ expenses' = es
          /\ nextExpenseId' = nextExpenseId + 1
          /\ alertEval' = IF doc.status = "approved" /\ doc.budget # NoBudget
                          THEN AlertEvaluated(budgets, doc.budget)
                          ELSE NoBudget
          /\ \E failed \in SUBSET (IF doc.status = "approved" /\ doc.budget # NoBudget
                                   THEN checkBudgetAlert(budgets, es, doc.budget)
                                   ELSE {}) :
               /\ outbox' = Handed(IF doc.status = "approved" /\ doc.budget # NoBudget
                                   THEN checkBudgetAlert(budgets, es, doc.budget)
                                   ELSE {}, failed)
               /\ res' = IF SenderThrows(failed)
                         THEN Response("createExpense", 500, "error", 0)
                         ELSE Response("createExpense", 201, "Expense created successfully", id)
          /\ UNCHANGED <<elsewhere, now, budgets, nextBudgetId>>

updateExpense(actor, id, body) ==
  IF ~updateExpenseValidation(body)
  THEN Refuse("updateExpense", 400, "Validation failed")
  ELSE IF id \notin DOMAIN expenses
  THEN Refuse("updateExpense", 404, "Expense not found")
  ELSE IF Role(actor) = "user" /\ expenses[id].submittedBy # actor
  THEN Refuse("updateExpense", 403, "Not authorized to update this expense")
  ELSE IF Role(actor) = "user" /\ expenses[id].status # "pending"
  THEN Refuse("updateExpense", 400, "Cannot edit expense that is not pending")
  ELSE LET oldStatus == expenses[id].status
           doc == UpdatedExpense(expenses[id], body)
           es  == [expenses EXCEPT ![id] = doc]
           notice == IF oldStatus # doc.status /\ doc.status \in {"approved", "rejected"}
                     THEN sendExpenseNotification(doc.submittedBy, id, doc.status)
                     ELSE {}
           alertDue == doc.status = "approved" /\ doc.budget \in DOMAIN budgets
       IN IF ~ExpenseSchemaValid(doc)
          THEN Refuse("updateExpense", 500, "error")
          ELSE /\ expenses' = es
               /\ alertEval' = IF alertDue THEN doc.budget ELSE NoBudget
               /\ \E failed \in SUBSET (notice \cup (IF alertDue
                                                     THEN checkBudgetAlert(budgets, es, doc.budget)
                                                     ELSE {})) :
                    /\ outbox' = Handed(notice \cup (IF alertDue
                                                     THEN checkBudgetAlert(budgets, es, doc.budget)
                                                     ELSE {}), failed)
                    /\ res' = IF SenderThrows(failed)
                              THEN Response("updateExpense", 500, "error", 0)
                              ELSE Response("updateExpense", 200, "Expense updated successfully", id)
               /\ UNCHANGED <<elsewhere, now, budgets, nextExpenseId, nextBudgetId>>

deleteExpense(actor, id) ==
  IF id \notin DOMAIN expenses
  THEN Refuse("deleteExpense", 404, "Expense not found")
  ELSE IF Role(actor) # "admin" /\ expenses[id].submittedBy # actor
  THEN Refuse("deleteExpense", 403, "Not authorized to delete this expense")
  ELSE IF Role(actor) = "user" /\ expenses[id].status # "pending"
  THEN Refuse("deleteExpense", 400, "Cannot delete expense that is not pending")
  ELSE /\ expenses' = [e \in DOMAIN expenses \ {id} |-> expenses[e]]
       /\ outbox' = {}
       /\ alertEval' = NoBudget
       /\ res' = Response("deleteExpense", 200, "Expense deleted successfully", id)
       /\ UNCHANGED <<elsewhere, now, budgets, nextExpenseId, nextBudgetId>>

\* Mutant of MissingRejectionReason: only an undefined reason counts as missing.
MissingRejectionReasonUndefinedOnly(status, reason) == status = "rejected" /\ reason.len < 0

\* reviewExpense: status === 'rejected' && !rejectionReason
MissingRejectionReason(status, reason) == status = "rejected" /\ ~Truthy(reason)

\* Mutant of NotPendingReview: an approved expense may be reviewed again.
NotPendingReviewApprovedToo(doc) == doc.status \notin {"pending", "approved"}

\* reviewExpense: expense.status !== 'pending'
NotPendingReview(doc) == doc.status # "pending"

\* The route PUT /:id/review: protect, authorize('manager', 'admin'),
\* reviewValidation, reviewExpense.
reviewExpense(actor, id, rawBody) ==
  LET body   == reviewValidation(rawBody)
      status == Get(body, "status", "")
      reason == Get(body, "rejectionReason", NoReason)
  IN IF ~authorize({"manager", "admin"}, actor)
     THEN Refuse("reviewExpense", 403, "User role user is not authorized to access this route")
     ELSE IF status \notin {"approved", "rejected"}
     THEN Refuse("reviewExpense", 400, "Invalid status. Must be approved or rejected")
     ELSE IF MissingRejectionReason(status, reason)
     THEN Refuse("reviewExpense", 400, "Rejection reason is required when rejecting an expense")
     ELSE IF id \notin DOMAIN expenses
     THEN Refuse("reviewExpense", 404, "Expense not found")
     ELSE IF NotPendingReview(expenses[id])
     THEN Refuse("reviewExpense", 400, "Expense is not pending review")
     ELSE LET set1 == [expenses[id] EXCEPT !.status = status,
                                           !.approvedBy = actor,
                                           !.approvalDate = now]
              set2 == IF Truthy(reason)
                      THEN [set1 EXCEPT !.rejectionReason = Trim(reason)]
                      ELSE set1
              doc  == ExpensePreSave(set2, {"status", "approvedBy", "approvalDate", "rejectionReason"}, now)
              es   == [expenses EXCEPT ![id] = doc]
              alertDue == status = "approved" /\ doc.budget # NoBudget
          IN IF ~ExpenseSchemaValid(doc)
             THEN Refuse("reviewExpense", 500, "error")
             ELSE /\ expenses' = es
                  /\ alertEval' = IF alertDue THEN AlertEvaluated(budgets, doc.budget) ELSE NoBudget
                  /\ \E failed \in SUBSET (sendExpenseNotification(doc.submittedBy, id, status)
                                           \cup (IF alertDue
                                                 THEN checkBudgetAlert(budgets, es, doc.budget)
                                                 ELSE {})) :
                       /\ outbox' = Handed(sendExpenseNotification(doc.submittedBy, id, status)
                                           \cup (IF alertDue
                                                 THEN checkBudgetAlert(budgets, es, doc.budget)
                                                 ELSE {}), failed)
                       /\ res' = IF SenderThrows(failed)
                                 THEN Response("reviewExpense", 500, "error", 0)
                                 ELSE Response("reviewExpense", 200,
                                               IF status = "approved"
                                               THEN "Expense approved successfully"
                                               ELSE "Expense rejected successfully", id)
                  /\ UNCHANGED <<elsewhere, now, budgets, nextExpenseId, nextBudgetId>>


(* ------------------------------------------------------------------ *)
(* Budget model, routes and controller                                 *)
(* ------------------------------------------------------------------ *)

BudgetFields == {"amount", "startDate", "endDate", "status", "alertThreshold", "owner", "department"}

\* The schema's validators: min of amount, enum of status, range of alertThreshold
BudgetSchemaValid(doc) ==
  /\ doc.amount >= 0
  /\ doc.status \in BudgetStatuses
  /\ doc.alertThreshold >= 0
  /\ doc.alertThreshold <= 100

\* budgetSchema.pre('save'): the status follows the dates
BudgetPreSaveStatus(doc, t) ==
  IF doc.status = "approved" /\ t >= doc.startDate /\ t <= doc.endDate THEN "active"
  ELSE IF doc.status = "active" /\ t > doc.endDate THEN "expired"
  ELSE doc.status

\* budgetValidation
budgetValidation(body) ==
  /\ Has(body, "amount") /\ body.amount >= 0
  /\ Has(body, "startDate") /\ Has(body, "endDate") /\ body.endDate > body.startDate
  /\ Has(body, "alertThreshold") => (body.alertThreshold >= 0 /\ body.alertThreshold <= 100)

\* updateBudgetValidation
updateBudgetValidation(body) ==
  /\ Has(body, "amount") => body.amount >= 0
  /\ Has(body, "alertThreshold") => (body.alertThreshold >= 0 /\ body.alertThreshold <= 100)
  /\ Has(body, "status") => body.status \in BudgetStatuses

\* The document Budget.create(req.body) builds
NewBudget(actor, body) ==
  [amount         |-> body.amount,
   startDate      |-> body.startDate,
   endDate        |-> body.endDate,
   status         |-> Get(body, "status", "draft"),
   alertThreshold |-> Get(body, "alertThreshold", DefaultAlertThreshold),
   owner          |-> actor,
   department     |-> Get(body, "department", Department(actor))]

createBudget(actor, body) ==
  IF ~budgetValidation(body)
  THEN Refuse("createBudget", 400, "Validation failed")
  ELSE LET made == NewBudget(actor, body)
           doc  == [made EXCEPT !.status = BudgetPreSaveStatus(made, now)]
           id   == nextBudgetId
       IN IF ~BudgetSchemaValid(made) \/ made.endDate <= made.startDate
          THEN Refuse("createBudget", 500, "error")
          ELSE /\ budgets' = [b \in DOMAIN budgets \cup {id} |-> IF b = id THEN doc ELSE budgets[b]]
               /\ nextBudgetId' = nextBudgetId + 1
               /\ res' = Response("createBudget", 201, "Budget created successfully", id)
               /\ outbox' = {}
               /\ alertEval' = NoBudget
               /\ UNCHANGED <<elsewhere, now, expenses, nextExpenseId>>

updateBudget(actor, id, body) ==
  IF ~updateBudgetValidation(body)
  THEN Refuse("updateBudget", 400, "Validation failed")
  ELSE IF id \notin DOMAIN budgets
  THEN Refuse("updateBudget", 404, "Budget not found")
  ELSE IF Role(actor) = "user" /\ budgets[id].owner # actor
  THEN Refuse("updateBudget", 403, "Not authorized to update this budget")
  ELSE LET doc == [f \in BudgetFields |-> IF f \in DOMAIN body THEN body[f] ELSE budgets[id][f]]
       IN IF ~BudgetSchemaValid(doc)
          THEN Refuse("updateBudget", 500, "error")
          ELSE /\ budgets' = [budgets EXCEPT ![id] = doc]
               /\ res' = Response("updateBudget", 200, "Budget updated successfully", id)
               /\ outbox' = {}
               /\ alertEval' = NoBudget
               /\ UNCHANGED <<elsewhere, now, expenses, nextExpenseId, nextBudgetId>>

\* Mutant of expenseCount: only approved expenses are counted.
expenseCountApproved(es, id) ==
  Cardinality({e \in DOMAIN es : es[e].budget = id /\ es[e].status = "approved"})

\* deleteBudget: Expense.countDocuments({ budget: budget._id })
expenseCount(es, id) == Cardinality({e \in DOMAIN es : es[e].budget = id})

deleteBudget(actor, id) ==
  IF id \notin DOMAIN budgets
  THEN Refuse("deleteBudget", 404, "Budget not found")
  ELSE IF Role(actor) # "admin" /\ budgets[id].owner # actor
  THEN Refuse("deleteBudget", 403, "Not authorized to delete this budget")
  ELSE IF expenseCount(expenses, id) > 0
  THEN Refuse("deleteBudget", 400, "Cannot delete budget with associated expenses")
  ELSE /\ budgets' = [b \in DOMAIN budgets \ {id} |-> budgets[b]]
       /\ res' = Response("deleteBudget", 200, "Budget deleted successfully", id)
       /\ outbox' = {}
       /\ alertEval' = NoBudget
       /\ UNCHANGED <<elsewhere, now, expenses, nextExpenseId, nextBudgetId>>

\* getBudgets: the role filter of the query
BudgetQuery(actor, doc) ==
  CASE Role(actor) = "user" -> doc.owner = actor
    [] Role(actor) = "manager" -> doc.owner = actor \/ doc.department = Department(actor)
    [] OTHER -> TRUE

\* getBudgets without further filters: data holds the _id of each returned
\* budget.
getBudgets(actor) ==
  /\ res' = [op |-> "getBudgets", code |-> 200, message |-> "ok", ref |-> 0,
             data |-> {b \in DOMAIN budgets : BudgetQuery(actor, budgets[b])}]
  /\ outbox' = {}
  /\ alertEval' = NoBudget
  /\ UNCHANGED <<elsewhere, store>>

\* Mutant of getBudget: the read settles the expenses it has counted.
getBudgetSettling(actor, id) ==
  IF id \notin DOMAIN budgets
  THEN Refuse("getBudget", 404, "Budget not found")
  ELSE IF Role(actor) = "user" /\ budgets[id].owner # actor
  THEN Refuse("getBudget", 403, "Not authorized to access this budget")
  ELSE LET spentAmount == getBudgetSpent(expenses, id)
       IN /\ res' = [op |-> "getBudget", code |-> 200, message |-> "ok", ref |-> id,
                     spentAmount     |-> spentAmount,
                     remainingAmount |-> budgets[id].amount - spentAmount,
                     usagePercentage |-> Percentage(budgets[id].amount, spentAmount),
                     expenses        |-> FindApproved(expenses, id)]
          /\ expenses' = [e \in DOMAIN expenses |->
                            IF e \in FindApproved(expenses, id)
                            THEN [expenses[e] EXCEPT !.status = "reimbursed"]
                            ELSE expenses[e]]
          /\ outbox' = {}
          /\ alertEval' = NoBudget
          /\ UNCHANGED <<elsewhere, now, budgets, nextExpenseId, nextBudgetId>>

\* getBudget: the ledger figures of one budget and the approved expenses they
\* were computed from are part of the response data.
getBudget(actor, id) ==
  IF id \notin DOMAIN budgets
  THEN Refuse("getBudget", 404, "Budget not found")
  ELSE IF Role(actor) = "user" /\ budgets[id].owner # actor
  THEN Refuse("getBudget", 403, "Not authorized to access this budget")
  ELSE LET spentAmount == getBudgetSpent(expenses, id)
       IN /\ res' = [op |-> "getBudget", code |-> 200, message |-> "ok", ref |-> id,
                     spentAmount     |-> spentAmount,
                     remainingAmount |-> budgets[id].amount - spentAmount,
                     usagePercentage |-> Percentage(budgets[id].amount, spentAmount),
                     expenses        |-> FindApproved(expenses, id)]
          /\ outbox' = {}
          /\ alertEval' = NoBudget
          /\ UNCHANGED <<elsewhere, store>>

(* ------------------------------------------------------------------ *)
(* Authentication middleware                                           *)
(* ------------------------------------------------------------------ *)

\* The user collection: the three users of the store and one deactivated
\* account. An id outside Accounts is the id of no stored user.
Accounts == Users \cup {"z1"}

\* user.isActive
isActive(u) == u # "z1"

\* req.headers.authorization.split(' ')[1] when the header is present and
\* starts with 'Bearer'; otherwise token stays undefined.
BearerToken(headers) ==
  IF Has(headers, "authorization") /\ headers.authorization.startsWithBearer
     /\ Has(headers.authorization, "token")
  THEN {headers.authorization.token}
  ELSE {}

\* Mutant of AccountDeactivated: the isActive check is dropped.
AccountDeactivatedNever(u) == FALSE

\* if (!req.user.isActive)
AccountDeactivated(u) == ~isActive(u)

\* protect: the 401 it answers, or the user it attaches to the request
\* before calling next(). jwt.verify throws on a forged, malformed or expired
\* token, which the catch answers with 401.
protect(headers) ==
  IF BearerToken(headers) = {}
  THEN [code |-> 401, message |-> "Not authorized to access this route", user |-> NoUser]
  ELSE LET token == CHOOSE t \in BearerToken(headers) : TRUE
       IN IF ~token.verifies
          THEN [code |-> 401, message |-> "Not authorized to access this route", user |-> NoUser]
          ELSE IF token.id \notin Accounts
          THEN [code |-> 401, message |-> "User not found", user |-> NoUser]
          ELSE IF AccountDeactivated(token.id)
          THEN [code |-> 401, message |-> "Account is deactivated", user |-> NoUser]
          ELSE [code |-> 200, message |-> "next", user |-> token.id]

\* router.<verb>(path, protect, ..., handler): the handler runs for the user
\* protect resolved, or protect answers and the chain stops.
Protected(headers, handler(_)) ==
  LET p == protect(headers)
  IN IF p.code = 401 THEN Refuse("protect", 401, p.message) ELSE handler(p.user)

(* ------------------------------------------------------------------ *)
(* Currency service (exchange-rate cache)                              *)
(* ------------------------------------------------------------------ *)

\* Rates are held in hundredths (0.85 is 85); two of the ten currencies.
defaultRates == [USD |-> 100, EUR |-> 85]

\* let exchangeRatesCache = { rates: defaultRates, lastUpdated: null,
\* baseCurrency: 'USD' }: the module's initial cache carries no source.
InitialRatesCache ==
  [rates |-> defaultRates, baseCurrency |-> "USD", lastUpdated |-> NoDate, source |-> "undefined"]

\* fetchExchangeRates at time t: outcome is what axios.get produced. A
\* response with rates is returned as fetched; a failure of any kind is
\* caught and answered with the default rates, stamped with the current time.
fetchExchangeRates(outcome, t) ==
  IF outcome.ok
  THEN [rates |-> outcome.rates, baseCurrency |-> "USD", lastUpdated |-> t, source |-> "API"]
  ELSE [rates |-> defaultRates, baseCurrency |-> "USD", lastUpdated |-> t, source |-> "DEFAULT"]

\* updateExchangeRates: exchangeRatesCache = await fetchExchangeRates(...)
updateExchangeRates(outcome) ==
  exchangeRatesCache' = fetchExchangeRates(outcome, now)

\* cacheAge > CACHE_DURATION, with cacheAge = CACHE_DURATION + 1 when
\* lastUpdated is null; one step of the clock is longer than CACHE_DURATION.
CacheExpired(cache, t) == cache.lastUpdated = NoDate \/ t > cache.lastUpdated

\* getExchangeRates(forceRefresh): refreshes when forced or expired, then
\* returns the cache.
getExchangeRates(forceRefresh, outcome) ==
  IF forceRefresh \/ CacheExpired(exchangeRatesCache, now)
  THEN updateExchangeRates(outcome)
  ELSE exchangeRatesCache' = exchangeRatesCache

\* convertCurrency over the rates read from the cache; amounts in cents.
\* Math.round(convertedAmount * 100) / 100
convertCurrency(cache, amount, fromCurrency, toCurrency) ==
  IF fromCurrency = toCurrency THEN amount
  ELSE LET fromRate == IF fromCurrency # cache.baseCurrency THEN cache.rates[fromCurrency] ELSE 100
           toRate == IF toCurrency # cache.baseCurrency THEN cache.rates[toCurrency] ELSE 100
       IN MathRound(amount * toRate, fromRate)

\* initializeCurrencyService: updateExchangeRates() at start-up and again from
\* the hourly setInterval callback. Nothing is answered to anyone.
initializeCurrencyService(outcome) ==
  /\ updateExchangeRates(outcome)
  /\ UNCHANGED <<store, res, outbox, alertEval, uploadDir, inflight>>

\* GET /api/currency/rates
getRates(forceRefresh, outcome) ==
  /\ getExchangeRates(forceRefresh, outcome)
  /\ res' = [op |-> "getRates", code |-> 200,
             message |-> "Exchange rates retrieved successfully", ref |-> 0,
             rates |-> exchangeRatesCache'.rates, source |-> exchangeRatesCache'.source]
  /\ outbox' = {}
  /\ alertEval' = NoBudget
  /\ UNCHANGED <<store, uploadDir, inflight>>

\* POST /api/currency/convert
convert(body, outcome) ==
  IF ~(Has(body, "amount") /\ body.amount # 0 /\ Has(body, "fromCurrency") /\ Has(body, "toCurrency"))
  THEN /\ res' = Response("convert", 400, "Amount, fromCurrency, and toCurrency are required", 0)
       /\ outbox' = {}
       /\ alertEval' = NoBudget
       /\ UNCHANGED <<store, elsewhere>>
  ELSE /\ IF body.fromCurrency = body.toCurrency
          THEN exchangeRatesCache' = exchangeRatesCache
          ELSE getExchangeRates(FALSE, outcome)
       /\ res' = [op |-> "convert", code |-> 200,
                  message |-> "Currency conversion completed successfully", ref |-> 0,
                  convertedAmount |-> convertCurrency(exchangeRatesCache', body.amount,
                                                      body.fromCurrency, body.toCurrency)]
       /\ outbox' = {}
       /\ alertEval' = NoBudget
       /\ UNCHANGED <<store, uploadDir, inflight>>

(* ------------------------------------------------------------------ *)
(* Upload routes and file storage                                      *)
(* ------------------------------------------------------------------ *)

\* multer diskStorage filename: a name no earlier upload was given (time
\* stamp and random bytes); names are numbered in the order they are made.
StoredFileName == uploadDir.made + 1

\* deleteFile(filename): unlinks the file when it exists
deleteFile(files, filename) == files \ {filename}

\* deleteFile's return value: whether there was a file to unlink
deleteFileDeleted(files, filename) == filename \in files

\* expenseSchema.methods.addReceipt
addReceipt(doc, receiptData) == [doc EXCEPT !.receipts = @ \cup {receiptData}]

\* expenseSchema.methods.removeReceipt
removeReceipt(doc, receiptId) == [doc EXCEPT !.receipts = {r \in @ : r.id # receiptId}]

\* expense.submittedBy !== req.user._id && !['admin', 'manager'].includes(role)
NotReceiptEditor(actor, doc) == doc.submittedBy # actor /\ Role(actor) \notin {"admin", "manager"}

\* The answer of an upload route that keeps no file: the uploaded file, if one
\* was written, is unlinked again.
UploadRefused(op, code, message, written) ==
  /\ res' = Response(op, code, message, 0)
  /\ uploadDir' = [uploadDir EXCEPT !.made = @ + written]
  /\ outbox' = {}
  /\ alertEval' = NoBudget
  /\ UNCHANGED <<store, exchangeRatesCache, inflight>>

\* POST /api/uploads/receipt: the file is stored, no expense is touched.
\* upload is what multer made of the request: "none" (no file part),
\* "rejected" (file filter or size limit), "stored".
uploadReceipt(actor, upload) ==
  IF upload = "rejected" THEN UploadRefused("uploadReceipt", 400, "File upload failed", 0)
  ELSE IF upload = "none" THEN UploadRefused("uploadReceipt", 400, "No file provided", 0)
  ELSE /\ uploadDir' = [files |-> uploadDir.files \cup {StoredFileName}, made |-> uploadDir.made + 1]
       /\ res' = Response("uploadReceipt", 200, "Receipt uploaded successfully", StoredFileName)
       /\ outbox' = {}
       /\ alertEval' = NoBudget
       /\ UNCHANGED <<store, exchangeRatesCache, inflight>>

\* POST /api/uploads/expense/:expenseId/receipt
addExpenseReceipt(actor, expenseId, upload) ==
  IF upload = "rejected" THEN UploadRefused("addExpenseReceipt", 400, "File upload failed", 0)
  ELSE IF upload = "none" THEN UploadRefused("addExpenseReceipt", 400, "No file provided", 0)
  ELSE IF expenseId \notin DOMAIN expenses
  THEN UploadRefused("addExpenseReceipt", 404, "Expense not found", 1)
  ELSE IF NotReceiptEditor(actor, expenses[expenseId])
  THEN UploadRefused("addExpenseReceipt", 403, "Not authorized to upload receipt for this expense", 1)
  ELSE LET receiptData == [id |-> StoredFileName, fileName |-> StoredFileName]
           changed == addAuditLog(addReceipt(expenses[expenseId], receiptData), "updated", actor, now)
           doc == ExpensePreSave(changed, {"receipts", "auditLog"}, now)
       IN IF ~ExpenseSchemaValid(doc)
          THEN UploadRefused("addExpenseReceipt", 500, "Failed to add receipt to expense", 1)
          ELSE /\ expenses' = [expenses EXCEPT ![expenseId] = doc]
               /\ uploadDir' = [files |-> uploadDir.files \cup {StoredFileName},
                                made |-> uploadDir.made + 1]
               /\ res' = Response("addExpenseReceipt", 200,
                                  "Receipt added to expense successfully", expenseId)
               /\ outbox' = {}
               /\ alertEval' = NoBudget
               /\ UNCHANGED <<now, budgets, nextExpenseId, nextBudgetId, exchangeRatesCache, inflight>>

\* DELETE /api/uploads/expense/:expenseId/receipt/:receiptId
removeExpenseReceipt(actor, expenseId, receiptId) ==
  IF expenseId \notin DOMAIN expenses
  THEN Refuse("removeExpenseReceipt", 404, "Expense not found")
  ELSE IF NotReceiptEditor(actor, expenses[expenseId])
  THEN Refuse("removeExpenseReceipt", 403, "Not authorized to remove receipt from this expense")
  ELSE IF \A r \in expenses[expenseId].receipts : r.id # receiptId
  THEN Refuse("removeExpenseReceipt", 404, "Receipt not found")
  ELSE LET receipt == CHOOSE r \in expenses[expenseId].receipts : r.id = receiptId
           changed == addAuditLog(removeReceipt(expenses[expenseId], receiptId), "updated", actor, now)
           doc == ExpensePreSave(changed, {"receipts", "auditLog"}, now)
       IN /\ uploadDir' = [uploadDir EXCEPT !.files = deleteFile(@, receipt.fileName)]
          /\ IF ~ExpenseSchemaValid(doc)
             THEN /\ expenses' = expenses
                  /\ res' = Response("removeExpenseReceipt", 500,
                                     "Failed to remove receipt from expense", 0)
             ELSE /\ expenses' = [expenses EXCEPT ![expenseId] = doc]
                  /\ res' = Response("removeExpenseReceipt", 200,
                                     "Receipt removed from expense successfully", expenseId)
          /\ outbox' = {}
          /\ alertEval' = NoBudget
          /\ UNCHANGED <<now, budgets, nextExpenseId, nextBudgetId, exchangeRatesCache, inflight>>

\* Expense.findOne({ 'receipts.fileName': filename }): the expenses that match
ReceiptHolders(es, filename) ==
  {e \in DOMAIN es : \E r \in es[e].receipts : r.fileName = filename}

\* DELETE /api/uploads/file/:filename: findOne answers the first match.
deleteUploadedFile(actor, filename) ==
  LET holders == ReceiptHolders(expenses, filename)
      expense == CHOOSE e \in holders : \A o \in holders : e <= o
  IN IF holders # {} /\ NotReceiptEditor(actor, expenses[expense])
     THEN Refuse("deleteUploadedFile", 403, "Not authorized to delete this file")
     ELSE IF ~deleteFileDeleted(uploadDir.files, filename)
     THEN Refuse("deleteUploadedFile", 404, "File not found or already deleted")
     ELSE /\ uploadDir' = [uploadDir EXCEPT !.files = deleteFile(@, filename)]
          /\ res' = Response("deleteUploadedFile", 200, "File deleted successfully", filename)
          /\ outbox' = {}
          /\ alertEval' = NoBudget
          /\ UNCHANGED <<store, exchangeRatesCache, inflight>>

(* ------------------------------------------------------------------ *)
(* Handlers served step by step (one step per awaited store operation) *)
(* ------------------------------------------------------------------ *)

\* What a request leaves untouched while it is being served: the clock, the
\* last response of the one-step handlers, the caches.
served == <<now, res, outbox, alertEval, exchangeRatesCache, uploadDir>>

\* The locals of a request, with some of them assigned
Merge(locals, assigned) ==
  [f \in DOMAIN locals \cup DOMAIN assigned |->
     IF f \in DOMAIN assigned THEN assigned[f] ELSE locals[f]]

\* A request that has been answered
Answered(request, code) == Merge(request, [pc |-> "done", code |-> code])

\* reviewExpense, lines up to and including Expense.findById: the decision is
\* checked, the expense is read into the request, its status is checked.
reviewExpenseFind(actor, id, rawBody) ==
  LET body    == reviewValidation(rawBody)
      status  == Get(body, "status", "")
      reason  == Get(body, "rejectionReason", NoReason)
      request == [op |-> "reviewExpense", pc |-> "save", code |-> 0, actor |-> actor, id |-> id,
                  status |-> status, reason |-> reason, sent |-> {}, observed |-> 0 - 1]
  IN /\ inflight' =
          Append(inflight,
                 IF ~authorize({"manager", "admin"}, actor) THEN Answered(request, 403)
                 ELSE IF status \notin {"approved", "rejected"} THEN Answered(request, 400)
                 ELSE IF MissingRejectionReason(status, reason) THEN Answered(request, 400)
                 ELSE IF id \notin DOMAIN expenses THEN Answered(request, 404)
                 ELSE IF NotPendingReview(expenses[id]) THEN Answered(request, 400)
                 ELSE Merge(request, [expense |-> expenses[id]]))
     /\ UNCHANGED <<served, budgets, expenses, nextExpenseId, nextBudgetId>>

\* The paths reviewExpense assigns on the document it has read
reviewExpenseModified(reason) ==
  {"status", "approvedBy", "approvalDate"} \cup (IF Truthy(reason) THEN {"rejectionReason"} ELSE {})

\* reviewExpense, the assignments and expense.save(): the modified paths of
\* the request's document are written to the stored one, whatever it holds
\* by now; a document that is gone makes save throw.
reviewExpenseSave(r) ==
  LET request == inflight[r]
      set1 == [request.expense EXCEPT !.status = request.status,
                                      !.approvedBy = request.actor,
                                      !.approvalDate = now]
      set2 == IF Truthy(request.reason)
              THEN [set1 EXCEPT !.rejectionReason = Trim(request.reason)]
              ELSE set1
      modified == reviewExpenseModified(request.reason)
      doc == ExpensePreSave(set2, modified, now)
  IN /\ request.op = "reviewExpense"
     /\ request.pc = "save"
     /\ IF ~ExpenseSchemaValid(doc) \/ request.id \notin DOMAIN expenses
        THEN /\ inflight' = [inflight EXCEPT ![r] = Answered(request, 500)]
             /\ expenses' = expenses
        ELSE /\ inflight' = [inflight EXCEPT ![r] = Merge(request, [pc |-> "notify", expense |-> doc])]
             /\ expenses' = [expenses EXCEPT ![request.id] =
                               [f \in ExpenseFields |->
                                  IF f \in modified THEN doc[f] ELSE expenses[request.id][f]]]
     /\ UNCHANGED <<served, budgets, nextExpenseId, nextBudgetId>>

\* reviewExpense, from the notification to Budget.findById in
\* checkBudgetAlert: the submitter is notified; when the decision is approved
\* and the expense has a budget, the budget is read for the evaluation.
reviewExpenseNotify(r) ==
  LET request == inflight[r]
      notice  == sendExpenseNotification(request.expense.submittedBy, request.id, request.status)
      noticed == Merge(request, [sent |-> request.sent \cup notice])
      bid     == request.expense.budget
  IN /\ request.op = "reviewExpense"
     /\ request.pc = "notify"
     /\ inflight' = [inflight EXCEPT ![r] =
                       IF request.status = "approved" /\ bid # NoBudget /\ bid \in DOMAIN budgets
                       THEN Merge(noticed, [pc |-> "alert", budget |-> budgets[bid]])
                       ELSE Answered(noticed, 200)]
     /\ UNCHANGED <<served, budgets, expenses, nextExpenseId, nextBudgetId>>

\* Mutant of AlertExpenses: the evaluation counts the request's own document
\* instead of reading the expenses again.
AlertExpensesOwn(r) == [e \in {inflight[r].id} |-> inflight[r].expense]

\* checkBudgetAlert: Expense.find({ budget, status: 'approved' }) reads the
\* stored expenses at the time of the evaluation.
AlertExpenses(r) == expenses

\* reviewExpense, the rest of checkBudgetAlert and the response: the approved
\* expenses are read, the percentage is compared with the threshold of the
\* budget read before, the alert is sent when it is reached.
reviewExpenseAlert(r) ==
  LET request == inflight[r]
      bid == request.expense.budget
      bs  == [b \in {bid} |-> request.budget]
  IN /\ request.op = "reviewExpense"
     /\ request.pc = "alert"
     /\ inflight' = [inflight EXCEPT ![r] =
                       Answered(Merge(request,
                                      [observed |-> checkBudgetAlertPercentage(bs, AlertExpenses(r), bid),
                                       sent |-> request.sent
                                                \cup checkBudgetAlert(bs, AlertExpenses(r), bid)]),
                                200)]
     /\ UNCHANGED <<served, budgets, expenses, nextExpenseId, nextBudgetId>>

\* createExpense, lines up to and including Budget.findById: the body is
\* validated and the budget it names is read and checked.
createExpenseCheck(actor, body) ==
  LET bid == Get(body, "budget", NoBudget)
      expenseDate == Get(body, "date", now)
      request == [op |-> "createExpense", pc |-> "create", code |-> 0, actor |-> actor,
                  body |-> body, sent |-> {}]
  IN /\ inflight' =
          Append(inflight,
                 IF ~expenseValidation(body) THEN Answered(request, 400)
                 ELSE IF bid # NoBudget /\ bid \notin DOMAIN budgets THEN Answered(request, 400)
                 ELSE IF bid # NoBudget /\ BudgetNotActive(budgets[bid]) THEN Answered(request, 400)
                 ELSE IF bid # NoBudget /\ OutsideBudgetPeriod(budgets[bid], expenseDate)
                 THEN Answered(request, 400)
                 ELSE request)
     /\ UNCHANGED <<served, budgets, expenses, nextExpenseId, nextBudgetId>>

\* createExpense, Expense.create(req.body) and what follows it: the document
\* is stored without another look at the budget; an approved document has its
\* budget's alert evaluated.
createExpenseCreate(r) ==
  LET request == inflight[r]
      doc == ExpensePreSave(NewExpense(request.actor, request.body, now), ExpenseFields, now)
      id  == nextExpenseId
      es  == [e \in DOMAIN expenses \cup {id} |-> IF e = id THEN doc ELSE expenses[e]]
  IN /\ request.op = "createExpense"
     /\ request.pc = "create"
     /\ IF ~ExpenseSchemaValid(doc)
        THEN /\ inflight' = [inflight EXCEPT ![r] = Answered(request, 500)]
             /\ UNCHANGED <<expenses, nextExpenseId>>
        ELSE /\ inflight' = [inflight EXCEPT ![r] =
                               Answered(Merge(request,
                                              [id |-> id,
                                               sent |-> IF doc.status = "approved" /\ doc.budget # NoBudget
                                                        THEN checkBudgetAlert(budgets, es, doc.budget)
                                                        ELSE {}]),
                                        201)]
             /\ expenses' = es
             /\ nextExpenseId' = nextExpenseId + 1
     /\ UNCHANGED <<served, budgets, nextBudgetId>>

\* deleteBudget, Budget.findById and the ownership check
deleteBudgetFind(actor, id) ==
  LET request == [op |-> "deleteBudget", pc |-> "count", code |-> 0, actor |-> actor, id |-> id]
  IN /\ inflight' =
          Append(inflight,
                 IF id \notin DOMAIN budgets THEN Answered(request, 404)
                 ELSE IF Role(actor) # "admin" /\ budgets[id].owner # actor THEN Answered(request, 403)
                 ELSE request)
     /\ UNCHANGED <<served, budgets, expenses, nextExpenseId, nextBudgetId>>

\* deleteBudget, Expense.countDocuments({ budget }) and its check
deleteBudgetCount(r) ==
  LET request == inflight[r]
  IN /\ request.op = "deleteBudget"
     /\ request.pc = "count"
     /\ inflight' = [inflight EXCEPT ![r] =
                       IF expenseCount(expenses, request.id) > 0
                       THEN Answered(request, 400)
                       ELSE Merge(request, [pc |-> "delete"])]
     /\ UNCHANGED <<served, budgets, expenses, nextExpenseId, nextBudgetId>>

\* deleteBudget, budget.deleteOne() and the response
deleteBudgetDelete(r) ==
  LET request == inflight[r]
  IN /\ request.op = "deleteBudget"
     /\ request.pc = "delete"
     /\ inflight' = [inflight EXCEPT ![r] = Answered(request, 200)]
     /\ budgets' = [b \in DOMAIN budgets \ {request.id} |-> budgets[b]]
     /\ UNCHANGED <<served, expenses, nextExpenseId, nextBudgetId>>

(* ------------------------------------------------------------------ *)
(* Time                                                                *)
(* ------------------------------------------------------------------ *)

\* The wall clock (Date.now, new Date()) moves on between requests.
Tick ==
  /\ now < MaxTime
  /\ now' = now + 1
  /\ UNCHANGED <<elsewhere, budgets, expenses, nextExpenseId, nextBudgetId, res, outbox, alertEval>>

\* Empty collections, no request served yet.
Init ==
  /\ now = 0
  /\ budgets = <<>>
  /\ expenses = <<>>
  /\ nextExpenseId = 1
  /\ nextBudgetId = 1
  /\ res = Response("none", 0, "none", 0)
  /\ outbox = {}
  /\ alertEval = NoBudget
  /\ exchangeRatesCache = InitialRatesCache
  /\ uploadDir = [files |-> {}, made |-> 0]
  /\ inflight = <<>>


(* ------------------------------------------------------------------ *)
(* Request inputs                                                      *)
(* ------------------------------------------------------------------ *)

ShortReason == [len |-> 5, ws |-> FALSE]

PaddedReason == [len |-> 5, ws |-> TRUE]

BlankReason == [len |-> 0, ws |-> TRUE]

LongReason == [len |-> MaxReasonLength + 1, ws |-> FALSE]

ExpenseIds == 1 .. MaxExpenses

BudgetIds == 1 .. MaxBudgets

(* ------------------------------------------------------------------ *)
(* Specification of the approval workflow                              *)
(* ------------------------------------------------------------------ *)

FlowSubmitters == {"u1", "m1"}

FlowCreateBodies == {[amount |-> 100, date |-> 0]}

FlowUpdateBodies == {[status |-> s] : s \in ExpenseStatuses \cup {"cancelled"}}

FlowReviewBodies ==
  {[status |-> "approved"],
   [status |-> "rejected"],
   [status |-> "reimbursed"]}
  \cup {[status |-> "rejected", rejectionReason |-> r] :
          r \in {ShortReason, PaddedReason, BlankReason, LongReason}}

CreateExpenseStep ==
  /\ nextExpenseId <= MaxExpenses
  /\ \E a \in FlowSubmitters, b \in FlowCreateBodies : createExpense(a, b)

UpdateExpenseStep == \E a \in Users, id \in ExpenseIds, b \in FlowUpdateBodies : updateExpense(a, id, b)

ReviewExpenseStep == \E a \in Users, id \in ExpenseIds, b \in FlowReviewBodies : reviewExpense(a, id, b)

Next ==
  \/ CreateExpenseStep
  \/ UpdateExpenseStep
  \/ ReviewExpenseStep
  \/ Tick

Spec == Init /\ [][Next]_vars

(* ------------------------------------------------------------------ *)
(* Specification of the review route: expenses submitted by a user,    *)
(* reviewed by anyone, reimbursed by an update                         *)
(* ------------------------------------------------------------------ *)

ReviewSubmitters == {"u1"}

ReviewReimburseBodies == {[status |-> "reimbursed"]}

ReviewSubmitStep ==
  /\ nextExpenseId <= MaxExpenses
  /\ \E a \in ReviewSubmitters, b \in FlowCreateBodies : createExpense(a, b)

ReviewReimburseStep ==
  \E a \in {"m1"}, id \in {e \in DOMAIN expenses : expenses[e].status = "approved"},
     b \in ReviewReimburseBodies : updateExpense(a, id, b)

ReviewDecideStep == \E a \in Users, id \in ExpenseIds, b \in FlowReviewBodies : reviewExpense(a, id, b)

NextReview ==
  \/ ReviewSubmitStep
  \/ ReviewReimburseStep
  \/ ReviewDecideStep
  \/ Tick

SpecReview == Init /\ [][NextReview]_vars

(* ------------------------------------------------------------------ *)
(* Specification of the budget ledger: active budgets, expenses in     *)
(* several currencies linked to them, decided and reimbursed by a      *)
(* manager, and the ledger read back                                   *)
(* ------------------------------------------------------------------ *)

LedgerBudgetBodies ==
  {[amount |-> a, startDate |-> 0, endDate |-> 1, status |-> "active"] : a \in {0, 8, 1000}}

LedgerExpenseBodies ==
  {[amount |-> a, exchangeRate |-> r, date |-> 0, budget |-> b] :
     a \in {7, 750, 850}, r \in {1, 2}, b \in BudgetIds}
  \cup {[amount |-> 850, date |-> 0]}

LedgerDecisions == {[status |-> "approved"], [status |-> "rejected", rejectionReason |-> ShortReason]}

LedgerBudgetStep ==
  /\ nextBudgetId <= MaxBudgets
  /\ \E b \in LedgerBudgetBodies : createBudget("m1", b)

LedgerSubmitStep ==
  /\ nextExpenseId <= MaxExpenses
  /\ \E b \in LedgerExpenseBodies : createExpense("u1", b)

LedgerDecideStep == \E id \in ExpenseIds, b \in LedgerDecisions : reviewExpense("m1", id, b)

LedgerReimburseStep ==
  \E id \in {e \in DOMAIN expenses : expenses[e].status = "approved"} :
     updateExpense("m1", id, [status |-> "reimbursed"])

LedgerReadStep == \E id \in BudgetIds : getBudget("m1", id)

NextLedger ==
  \/ LedgerBudgetStep
  \/ LedgerSubmitStep
  \/ LedgerDecideStep
  \/ LedgerReimburseStep
  \/ LedgerReadStep

SpecLedger == Init /\ [][NextLedger]_vars

(* ------------------------------------------------------------------ *)
(* Specification of expense submission against budgets that are        *)
(* created, updated and deleted while the clock moves                  *)
(* ------------------------------------------------------------------ *)

SubmitBudgetBodies ==
  {[amount |-> 1000, startDate |-> sd, endDate |-> ed, status |-> st] :
     sd \in {0, 1}, ed \in {1, 2}, st \in {"draft", "approved", "active"}}

SubmitBudgetUpdates == {[status |-> "rejected"], [status |-> "approved"], [endDate |-> 0]}

SubmitExpenseBodies ==
  {[amount |-> 100, budget |-> b] : b \in BudgetIds}
  \cup {[amount |-> 100, budget |-> b, date |-> d] : b \in BudgetIds, d \in 0 .. 2}
  \cup {[amount |-> 100, date |-> 2]}

SubmitBudgetStep ==
  /\ nextBudgetId <= MaxBudgets
  /\ \E b \in SubmitBudgetBodies : createBudget("m1", b)

SubmitBudgetUpdateStep == \E id \in BudgetIds, b \in SubmitBudgetUpdates : updateBudget("m1", id, b)

SubmitBudgetDeleteStep == \E id \in BudgetIds : deleteBudget("m1", id)

SubmitExpenseStep ==
  /\ nextExpenseId <= MaxExpenses
  /\ \E b \in SubmitExpenseBodies : createExpense("u1", b)

NextSubmit ==
  \/ SubmitBudgetStep
  \/ SubmitBudgetUpdateStep
  \/ SubmitBudgetDeleteStep
  \/ SubmitExpenseStep
  \/ Tick

SpecSubmit == Init /\ [][NextSubmit]_vars

(* ------------------------------------------------------------------ *)
(* Specification of budget deletion: budgets of two owners, expenses   *)
(* linked to them, decided and deleted, and delete requests by anyone  *)
(* ------------------------------------------------------------------ *)

DeleteBudgetOwners == {"u1", "m1"}

DeleteBudgetBodies == {[amount |-> 1000, startDate |-> 0, endDate |-> 1, status |-> "active"]}

DeleteExpenseBodies == {[amount |-> 100, date |-> 0, budget |-> b] : b \in BudgetIds}

DeleteBudgetCreateStep ==
  /\ nextBudgetId <= MaxBudgets
  /\ \E a \in DeleteBudgetOwners, b \in DeleteBudgetBodies : createBudget(a, b)

DeleteExpenseCreateStep ==
  /\ nextExpenseId <= MaxExpenses
  /\ \E b \in DeleteExpenseBodies : createExpense("u1", b)

DeleteDecideStep == \E id \in ExpenseIds, b \in LedgerDecisions : reviewExpense("m1", id, b)

DeleteExpenseStep == \E a \in {"u1", "a1"}, id \in ExpenseIds : deleteExpense(a, id)

DeleteBudgetStep == \E a \in Users, id \in BudgetIds : deleteBudget(a, id)

NextDelete ==
  \/ DeleteBudgetCreateStep
  \/ DeleteExpenseCreateStep
  \/ DeleteDecideStep
  \/ DeleteExpenseStep
  \/ DeleteBudgetStep

SpecDelete == Init /\ [][NextDelete]_vars

(* ------------------------------------------------------------------ *)
(* Specification of edits: amounts and rates of expenses and amounts   *)
(* of budgets are changed after submission and approval                *)
(* ------------------------------------------------------------------ *)

EditBudgetBodies == {[amount |-> 1000, startDate |-> 0, endDate |-> 1, status |-> "active"]}

EditSubmitBodies ==
  {[amount |-> 750, exchangeRate |-> r, date |-> 0, budget |-> b] : r \in {1, 2}, b \in BudgetIds}

EditExpenseBodies == {[amount |-> 850], [exchangeRate |-> 2], [status |-> "approved"]}

EditBudgetAmounts == {[amount |-> 800]}

EditBudgetStep ==
  /\ nextBudgetId <= MaxBudgets
  /\ \E b \in EditBudgetBodies : createBudget("m1", b)

EditSubmitStep ==
  /\ nextExpenseId <= MaxExpenses
  /\ \E b \in EditSubmitBodies : createExpense("u1", b)

EditDecideStep == \E id \in ExpenseIds : reviewExpense("m1", id, [status |-> "approved"])

EditExpenseStep == \E id \in ExpenseIds, b \in EditExpenseBodies : updateExpense("m1", id, b)

EditBudgetAmountStep == \E id \in BudgetIds, b \in EditBudgetAmounts : updateBudget("m1", id, b)

NextEdit ==
  \/ EditBudgetStep
  \/ EditSubmitStep
  \/ EditDecideStep
  \/ EditExpenseStep
  \/ EditBudgetAmountStep

SpecEdit == Init /\ [][NextEdit]_vars


(* ------------------------------------------------------------------ *)
(* Approval workflow: properties                                       *)
(* ------------------------------------------------------------------ *)

\* Statuses of all stored expenses are the same before and after the step.
StatusesKept == \A e \in DOMAIN expenses : e \in DOMAIN expenses' /\ expenses'[e].status = expenses[e].status

\* C1: an expense leaves pending for approved or rejected only by a request of
\* a manager or an admin; no request (createExpense, updateExpense,
\* reviewExpense) made by an actor of role user changes the status of a
\* stored expense.
C1_UserRequestsKeepStatus ==
  [][\A a \in Users : Role(a) = "user" =>
       /\ \A b \in FlowCreateBodies : createExpense(a, b) => StatusesKept
       /\ \A id \in ExpenseIds, b \in FlowUpdateBodies : updateExpense(a, id, b) => StatusesKept
       /\ \A id \in ExpenseIds, b \in FlowReviewBodies : reviewExpense(a, id, b) => StatusesKept]_vars

AllowedExpenseTransitions ==
  {<<"pending", "approved">>, <<"pending", "rejected">>, <<"approved", "reimbursed">>}

\* C2: across reviewExpense and updateExpense requests the status of an
\* expense changes only along pending->approved, pending->rejected or
\* approved->reimbursed, so a rejected or reimbursed expense keeps its status.
C2_OnlyAllowedTransitions ==
  [][\A e \in DOMAIN expenses :
       (e \in DOMAIN expenses' /\ expenses'[e].status # expenses[e].status)
          => <<expenses[e].status, expenses'[e].status>> \in AllowedExpenseTransitions]_vars

(* ------------------------------------------------------------------ *)
(* Ledger claims                                                       *)
(* ------------------------------------------------------------------ *)

\* The collection without one expense
Without(es, e) == [x \in DOMAIN es \ {e} |-> es[x]]

\* An expense that must not count for budget bid: linked elsewhere or to no
\* budget, or linked to bid but pending or rejected.
NotCounted(es, e, bid) == es[e].budget # bid \/ es[e].status \in {"pending", "rejected"}

\* The spent amount of budget bid in the five places that compute it
SpentFigures(es, bid) ==
  <<getBudgetSpent(es, bid), getBudgetsSpent(es, bid), getBudgetAnalyticsSpent(es, bid),
    checkBudgetAlertSpent(es, bid), calculateSpentAmount(es, bid)>>

\* C3: in every reachable state, removing an expense that is pending, rejected,
\* linked to another budget or to none changes none of the five spent figures
\* of a budget, and the spentAmount a getBudget response carries is the one
\* computed without that expense.
C3_UncountedExpensesContributeNothing ==
  /\ \A bid \in DOMAIN budgets, e \in DOMAIN expenses :
        NotCounted(expenses, e, bid)
          => SpentFigures(expenses, bid) = SpentFigures(Without(expenses, e), bid)
  /\ (res.op = "getBudget" /\ res.code = 200)
        => \A e \in DOMAIN expenses :
             NotCounted(expenses, e, res.ref)
               => res.spentAmount = getBudgetSpent(Without(expenses, e), res.ref)

\* C3 witness: a budget read back with one approved and one rejected expense
\* linked to it, and a spent amount of the approved one alone.
C3_Witness ==
  /\ res.op = "getBudget" /\ res.code = 200
  /\ \E e1, e2 \in DOMAIN expenses :
       /\ expenses[e1].budget = res.ref /\ expenses[e1].status = "approved"
       /\ expenses[e2].budget = res.ref /\ expenses[e2].status = "rejected"
       /\ expenses[e2].amount > 0
       /\ res.spentAmount = expenses[e1].amount

\* The collection with every reimbursed expense taken as approved
AsApproved(es) ==
  [e \in DOMAIN es |->
     IF es[e].status = "reimbursed" THEN [es[e] EXCEPT !.status = "approved"] ELSE es[e]]

\* C4: in every reachable state, each of the five spent figures of a budget
\* counts its reimbursed expenses exactly as if they were approved (so moving
\* an expense from approved to reimbursed changes no figure).
C4_ReimbursedCountedAsApproved ==
  \A bid \in DOMAIN budgets :
     SpentFigures(expenses, bid) = SpentFigures(AsApproved(expenses), bid)

\* C5: a successful approval of an expense linked to a budget raises the spent
\* amount of getBudget, getBudgets and checkBudgetAlert for that budget by
\* exactly amount * exchangeRate.
C5_ApprovalAddsConvertedAmount ==
  [][\A a \in Users, id \in DOMAIN expenses :
       (/\ expenses[id].budget \in DOMAIN budgets
        /\ reviewExpense(a, id, [status |-> "approved"])
        /\ ~IsError(res'.code))
         => LET bid == expenses[id].budget
                add == expenses[id].amount * expenses[id].exchangeRate
            IN /\ getBudgetSpent(expenses', bid) = getBudgetSpent(expenses, bid) + add
               /\ getBudgetsSpent(expenses', bid) = getBudgetsSpent(expenses, bid) + add
               /\ checkBudgetAlertSpent(expenses', bid) = checkBudgetAlertSpent(expenses, bid) + add]_vars

Abs(x) == IF x < 0 THEN 0 - x ELSE x

\* p is an integer nearest to num / den (den > 0)
NearestInteger(p, num, den) == 2 * Abs(den * p - num) <= den

\* p is the usage percentage of spent over amount
UsageRounded(amount, spent, p) ==
  IF amount = 0 THEN p = 0 ELSE NearestInteger(p, 100 * spent, amount)

\* C6: in every reachable state, for every budget, the percentage of getBudget
\* and getBudgets, the one of checkBudgetAlert and the usagePercentage virtual
\* are 0 when the budget amount is 0 and otherwise an integer nearest to
\* spent / amount * 100; so is the usagePercentage of a getBudget response.
C6_UsagePercentageRounded ==
  /\ \A bid \in DOMAIN budgets :
        LET b == budgets[bid]
        IN /\ UsageRounded(b.amount, getBudgetSpent(expenses, bid),
                           Percentage(b.amount, getBudgetSpent(expenses, bid)))
           /\ UsageRounded(b.amount, checkBudgetAlertSpent(expenses, bid),
                           checkBudgetAlertPercentage(budgets, expenses, bid))
           /\ UsageRounded(b.amount, calculateSpentAmount(expenses, bid),
                           usagePercentage(b.amount, calculateSpentAmount(expenses, bid)))
  /\ (res.op = "getBudget" /\ res.code = 200)
        => UsageRounded(budgets[res.ref].amount, res.spentAmount, res.usagePercentage)

\* C6 witness: a budget of amount 8 read back with 7 spent (87.5 per cent,
\* reported as 88) while a budget of amount 0 has approved expenses.
C6_Witness ==
  /\ res.op = "getBudget" /\ res.code = 200
  /\ budgets[res.ref].amount = 8 /\ res.spentAmount = 7 /\ res.usagePercentage = 88
  /\ \E bid \in DOMAIN budgets :
       /\ budgets[bid].amount = 0
       /\ getBudgetSpent(expenses, bid) > 0
       /\ Percentage(budgets[bid].amount, getBudgetSpent(expenses, bid)) = 0

\* C7: after an alert evaluation for a budget, a budget alert to the owner is
\* among the messages sent exactly when the budget's usage percentage (the
\* ledger's: approved and reimbursed expenses, converted amounts) is at least
\* its alert threshold.
C7_AlertIffUsageOverThreshold ==
  alertEval # NoBudget
    => LET b == budgets[alertEval]
       IN (\E m \in outbox : m.kind = "budgetAlert" /\ m.ref = alertEval /\ m.to = b.owner)
            <=> isOverThreshold(b, calculateSpentAmount(expenses, alertEval))

(* ------------------------------------------------------------------ *)
(* Submission claims                                                   *)
(* ------------------------------------------------------------------ *)

\* The budget exists, is active or approved, and its period holds the date.
BudgetAdmits(bs, bid, d) ==
  /\ bid \in DOMAIN bs
  /\ bs[bid].status \in {"active", "approved"}
  /\ bs[bid].startDate <= d
  /\ d <= bs[bid].endDate

\* C8: a createExpense request that names a budget either answers with an
\* error and leaves the expenses as they were, or the budget exists, is active
\* or approved and its period holds the expense date (the request's date, the
\* current time when it has none), and the expense is stored with that link.
C8_BudgetCheckedBeforeStoring ==
  [][\/ res'.op # "createExpense"
     \/ IsError(res'.code) /\ expenses' = expenses
     \/ \A a \in Users, b \in SubmitExpenseBodies :
          (Has(b, "budget") /\ createExpense(a, b))
            => /\ BudgetAdmits(budgets, b.budget, Get(b, "date", now))
               /\ res'.ref \in DOMAIN expenses' \ DOMAIN expenses
               /\ expenses'[res'.ref].budget = b.budget]_vars

\* C8 witness: an expense is stored with a link to a budget, and a later
\* submission against a budget was refused for its date.
C8_Witness ==
  /\ res.op = "createExpense"
  /\ res.message = "Expense date is outside budget period"
  /\ \E e \in DOMAIN expenses : expenses[e].budget # NoBudget

\* C9: reviewExpense on an expense that is not pending (approved, rejected or
\* reimbursed) answers with an error and leaves every stored expense as it
\* was; so a second approval fails and approvalDate and approvedBy keep the
\* values of the first approval.
C9_ReviewOfNonPendingFails ==
  [][\/ IsError(res'.code) /\ expenses' = expenses
     \/ \A a \in Users, id \in ExpenseIds, b \in FlowReviewBodies :
          ~(id \in DOMAIN expenses /\ expenses[id].status # "pending" /\ reviewExpense(a, id, b))]_vars

\* C9 witness: a review was refused because its expense is not pending, while
\* every stored expense is approved with an approval date before the current
\* time (a second approval would have stamped a later date).
C9_Witness ==
  /\ res.op = "reviewExpense"
  /\ res.message = "Expense is not pending review"
  /\ DOMAIN expenses # {}
  /\ \A e \in DOMAIN expenses :
       /\ expenses[e].status = "approved"
       /\ expenses[e].approvalDate # NoDate
       /\ expenses[e].approvalDate < now

\* The request rejects and carries a reason that is not empty once trimmed.
RejectsWithReason(b) ==
  /\ b.status = "rejected"
  /\ Has(b, "rejectionReason")
  /\ b.rejectionReason.len > 0

\* The request rejects and carries no reason, or one that is empty once trimmed.
RejectsWithoutReason(b) ==
  /\ b.status = "rejected"
  /\ Has(b, "rejectionReason") => b.rejectionReason.len <= 0

\* The review succeeded and the expense is rejected with the trimmed reason.
RejectedWith(id, b) ==
  /\ res'.code = 200
  /\ expenses'[id].status = "rejected"
  /\ expenses'[id].rejectionReason = Trim(b.rejectionReason)

\* A rejection that carries no reason is refused and stores nothing.
RejectWithoutReasonFails ==
  \/ IsError(res'.code) /\ expenses' = expenses
  \/ \A b \in FlowReviewBodies : RejectsWithoutReason(b) =>
       \A a \in Users, id \in ExpenseIds : ~reviewExpense(a, id, b)

\* A rejection of a pending expense by a manager or an admin, with one of the
\* given bodies, succeeds and stores status rejected and the reason.
RejectSucceedsWith(bodies) ==
  \/ res'.op # "reviewExpense"
  \/ \A b \in bodies, a \in {u \in Users : Role(u) \in {"manager", "admin"}} :
       \A id \in {e \in DOMAIN expenses : expenses[e].status = "pending"} :
          reviewExpense(a, id, b) => RejectedWith(id, b)

\* C10 as stated: a rejection without a reason fails and the expense stays
\* pending; a rejection with any reason, of a pending expense by a manager or
\* an admin, succeeds and stores status rejected and the reason.
C10_RejectWithAnyReasonSucceeds ==
  [][/\ RejectWithoutReasonFails
     /\ RejectSucceedsWith({b \in FlowReviewBodies : RejectsWithReason(b)})]_vars

\* C10 amended: a rejection without a reason fails and the expense stays
\* pending; a rejection with a reason of at most MaxReasonLength characters,
\* of a pending expense by a manager or an admin, succeeds and stores status
\* rejected and the reason.
C10_RejectWithBoundedReasonSucceeds ==
  [][/\ RejectWithoutReasonFails
     /\ RejectSucceedsWith({b \in FlowReviewBodies :
           RejectsWithReason(b) /\ b.rejectionReason.len <= MaxReasonLength})]_vars

\* C10 witness: a review succeeded and left an expense rejected with a stored
\* reason, while a pending expense remains.
C10_Witness ==
  /\ res.op = "reviewExpense"
  /\ res.code = 200
  /\ res.ref \in DOMAIN expenses
  /\ expenses[res.ref].status = "rejected"
  /\ expenses[res.ref].rejectionReason = Trim(ShortReason)

(* ------------------------------------------------------------------ *)
(* Audit, reason and approval-date claims                              *)
(* ------------------------------------------------------------------ *)

\* C11: every successful reviewExpense appends exactly one entry to the audit
\* log of the expense, tagged with the decision and performed by the reviewing
\* actor, and keeps the entries the log already had.
C11_ReviewAppendsAuditEntry ==
  [][\/ res'.op # "reviewExpense"
     \/ IsError(res'.code)
     \/ \A a \in Users, id \in DOMAIN expenses, b \in FlowReviewBodies :
          reviewExpense(a, id, b)
            => LET old == expenses[id].auditLog
                   new == expenses'[id].auditLog
               IN /\ Len(new) = Len(old) + 1
                  /\ SubSeq(new, 1, Len(old)) = old
                  /\ new[Len(new)].action = b.status
                  /\ new[Len(new)].performedBy = a]_vars

\* C12: in every reachable state an expense carries a rejection reason exactly
\* when its status is rejected.
C12_ReasonIffRejected ==
  \A e \in DOMAIN expenses :
     (expenses[e].rejectionReason # NoReason) <=> (expenses[e].status = "rejected")

\* C13: in every step, an approval date that is set stays as it is; one that is
\* unset becomes set exactly when the expense enters status approved (by
\* review, by update or at creation) and stays unset otherwise.
C13_ApprovalDateSetOnceOnApproval ==
  [][\A e \in DOMAIN expenses' :
       LET fresh   == e \notin DOMAIN expenses
           oldDate == IF fresh THEN NoDate ELSE expenses[e].approvalDate
           newDate == expenses'[e].approvalDate
           enters  == /\ expenses'[e].status = "approved"
                      /\ (fresh \/ expenses[e].status # "approved")
       IN IF oldDate # NoDate THEN newDate = oldDate
          ELSE IF enters THEN newDate # NoDate
          ELSE newDate = NoDate]_vars

(* ------------------------------------------------------------------ *)
(* Budget claims                                                       *)
(* ------------------------------------------------------------------ *)

\* Some expense, of whatever status, references budget id.
Referenced(es, id) == \E e \in DOMAIN es : es[e].budget = id

\* C14: a deleteBudget request on a stored budget that some expense references
\* answers with an error and leaves the budgets as they were; whenever the
\* request changes the budgets, no expense referenced the budget, the actor is
\* its owner or an admin, and exactly that budget is removed.
C14_DeleteOnlyUnreferencedBudget ==
  [][\/ res'.op # "deleteBudget"
     \/ \A a \in Users, id \in BudgetIds :
          deleteBudget(a, id)
            => /\ (id \in DOMAIN budgets /\ Referenced(expenses, id))
                    => (IsError(res'.code) /\ budgets' = budgets)
               /\ budgets' # budgets
                    => /\ ~Referenced(expenses, id)
                       /\ Role(a) = "admin" \/ budgets[id].owner = a
                       /\ DOMAIN budgets' = DOMAIN budgets \ {id}
                       /\ \A b \in DOMAIN budgets' : budgets'[b] = budgets[b]]_vars

\* C14 witness: a delete request was refused for the expenses of the budget
\* while every stored budget is referenced, one of them by a rejected expense.
C14_Witness ==
  /\ res.op = "deleteBudget"
  /\ res.message = "Cannot delete budget with associated expenses"
  /\ DOMAIN budgets # {}
  /\ \A b \in DOMAIN budgets : Referenced(expenses, b)
  /\ \E e \in DOMAIN expenses : expenses[e].status = "rejected"

\* C15: in every reachable state, every stored budget ends after it starts.
C15_BudgetEndsAfterStart ==
  \A b \in DOMAIN budgets : budgets[b].endDate > budgets[b].startDate

\* The status changes of the budget lifecycle
AllowedBudgetTransitions ==
  {<<"draft", "pending">>, <<"pending", "approved">>, <<"pending", "rejected">>,
   <<"approved", "active">>, <<"active", "expired">>}

\* C16: in every step, a stored budget keeps its status or moves along
\* draft -> pending -> approved -> active -> expired or pending -> rejected;
\* approved -> active only once the time has reached startDate, and
\* active -> expired only once it has passed endDate.
C16_BudgetStatusLifecycle ==
  [][\A b \in DOMAIN budgets \cap DOMAIN budgets' :
       LET old == budgets[b].status
           new == budgets'[b].status
       IN \/ new = old
          \/ /\ <<old, new>> \in AllowedBudgetTransitions
             /\ (new = "active") => now >= budgets[b].startDate
             /\ (new = "expired") => now > budgets[b].endDate]_vars

(* ------------------------------------------------------------------ *)
(* Edit claims                                                         *)
(* ------------------------------------------------------------------ *)

\* C17: in every reachable state, the converted amount of every stored expense
\* is its amount times its exchange rate.
C17_ConvertedAmountKept ==
  \A e \in DOMAIN expenses :
     expenses[e].convertedAmount = expenses[e].amount * expenses[e].exchangeRate

\* An event of this step changes the usage of budget b: an expense linked to b
\* is approved now and was not before, or is approved with another amount
\* than before, or the amount of b is another than before.
UsageEvent(b) ==
  \/ budgets'[b].amount # budgets[b].amount
  \/ \E e \in DOMAIN expenses' :
       /\ expenses'[e].budget = b
       /\ expenses'[e].status = "approved"
       /\ \/ e \notin DOMAIN expenses
          \/ expenses[e].status # "approved"
          \/ expenses[e].amount # expenses'[e].amount

\* C19: every step with an event that changes the usage of a budget runs the
\* alert evaluation for that budget.
C19_UsageEventReevaluatesAlert ==
  [][\A b \in DOMAIN budgets \cap DOMAIN budgets' : UsageEvent(b) => alertEval' = b]_vars

(* ------------------------------------------------------------------ *)
(* Ledger read claims                                                  *)
(* ------------------------------------------------------------------ *)

\* The ledger of budget id over a state of the store
LedgerOf(bs, es, id) ==
  [spentAmount     |-> getBudgetSpent(es, id),
   remainingAmount |-> bs[id].amount - getBudgetSpent(es, id),
   usagePercentage |-> Percentage(bs[id].amount, getBudgetSpent(es, id)),
   modelSpent      |-> calculateSpentAmount(es, id),
   overThreshold   |-> isOverThreshold(bs[id], calculateSpentAmount(es, id))]

SendFailed(m) == "error" \in DOMAIN m

\* C20: a reviewExpense request in which the send of the expense notification
\* or of the budget alert fails still answers with success for the reviewed
\* expense, and the expense is stored with the decided status.
C20_SenderFailureKeepsReview ==
  [][\/ res'.op # "reviewExpense"
     \/ \A m \in outbox' : ~SendFailed(m)
     \/ \A a \in Users, id \in DOMAIN expenses, b \in LedgerDecisions :
          reviewExpense(a, id, b)
            => /\ ~IsError(res'.code)
               /\ res'.ref = id
               /\ expenses'[id].status = b.status]_vars

\* C20 witness: an approval answered with success although the sends of both
\* the expense notification and the budget alert failed.
C20_Witness ==
  /\ res.op = "reviewExpense" /\ res.code = 200
  /\ expenses[res.ref].status = "approved"
  /\ \E m \in outbox : m.kind = "expenseNotification" /\ SendFailed(m)
  /\ \E m \in outbox : m.kind = "budgetAlert" /\ SendFailed(m)

(* ------------------------------------------------------------------ *)
(* Exchange rates: refreshes, reads and conversions                    *)
(* ------------------------------------------------------------------ *)

\* What the rates API may answer: nothing usable, or a table of rates.
RatesFetchOutcomes ==
  {[ok |-> FALSE]} \cup {[ok |-> TRUE, rates |-> [USD |-> 100, EUR |-> e]] : e \in {85, 90, 95}}

RatesConvertBodies ==
  {[amount |-> 1000, fromCurrency |-> "USD", toCurrency |-> "EUR"],
   [amount |-> 1000, fromCurrency |-> "EUR", toCurrency |-> "USD"],
   [amount |-> 1000, fromCurrency |-> "EUR", toCurrency |-> "EUR"],
   [amount |-> 0, fromCurrency |-> "USD", toCurrency |-> "EUR"],
   [amount |-> 1000, fromCurrency |-> "USD"]}

RatesPeriodicStep == \E outcome \in RatesFetchOutcomes : initializeCurrencyService(outcome)

RatesReadStep ==
  \E forceRefresh \in BOOLEAN, outcome \in RatesFetchOutcomes : getRates(forceRefresh, outcome)

RatesConvertStep ==
  \E body \in RatesConvertBodies, outcome \in RatesFetchOutcomes : convert(body, outcome)

NextRates ==
  \/ RatesPeriodicStep
  \/ RatesReadStep
  \/ RatesConvertStep
  \/ Tick

SpecRates == Init /\ [][NextRates]_vars

\* C21: a refresh that fails never replaces rates that were fetched from the
\* API: when the cache holds fetched rates and a step leaves it holding the
\* outcome of a failed fetch, the rates are those it held before, and the
\* conversion answered by that step is computed with them.
C21_FailedRefreshKeepsFetchedRates ==
  [][(exchangeRatesCache.source = "API" /\ exchangeRatesCache' # exchangeRatesCache
        /\ exchangeRatesCache'.source = "DEFAULT")
       => exchangeRatesCache'.rates = exchangeRatesCache.rates]_vars

(* ------------------------------------------------------------------ *)
(* Protected routes: requests with and without credentials             *)
(* ------------------------------------------------------------------ *)

\* Tokens a client may present: verifies is whether jwt.verify accepts the
\* token; id is the user id it was signed for ("x1" is the id of no user).
ProtectTokens == [verifies : BOOLEAN, id : {"u1", "m1", "z1", "x1"}]

ProtectHeaders ==
  {[host |-> "api"],
   [host |-> "api", authorization |-> [startsWithBearer |-> TRUE]],
   [host |-> "api", authorization |-> [startsWithBearer |-> FALSE,
                                       token |-> [verifies |-> TRUE, id |-> "m1"]]]}
  \cup {[host |-> "api", authorization |-> [startsWithBearer |-> TRUE, token |-> t]] :
          t \in ProtectTokens}

ProtectExpenseBodies ==
  {[amount |-> 750],
   [amount |-> 850, status |-> "approved", approvedBy |-> "a1", approvalDate |-> 0]}

ProtectSubmitStep ==
  /\ nextExpenseId <= MaxExpenses
  /\ \E headers \in ProtectHeaders, body \in ProtectExpenseBodies :
       Protected(headers, LAMBDA user : createExpense(user, body))

ProtectDecideStep ==
  \E headers \in ProtectHeaders, id \in ExpenseIds, body \in LedgerDecisions :
    Protected(headers, LAMBDA user : reviewExpense(user, id, body))

ProtectDeleteStep ==
  \E headers \in ProtectHeaders, id \in ExpenseIds :
    Protected(headers, LAMBDA user : deleteExpense(user, id))

ProtectRatesStep ==
  \E headers \in ProtectHeaders, outcome \in [ok : {FALSE}] :
    Protected(headers, LAMBDA user : getRates(TRUE, outcome))

NextProtect ==
  \/ ProtectSubmitStep
  \/ ProtectDecideStep
  \/ ProtectDeleteStep
  \/ ProtectRatesStep

SpecProtect == Init /\ [][NextProtect]_vars

\* The request carries a bearer token that verifies and resolves to a stored,
\* active user.
Authentic(headers) ==
  /\ Has(headers, "authorization")
  /\ headers.authorization.startsWithBearer
  /\ Has(headers.authorization, "token")
  /\ headers.authorization.token.verifies
  /\ headers.authorization.token.id \in Accounts
  /\ isActive(headers.authorization.token.id)

\* The request was answered 401 and nothing was stored, mailed or refreshed.
Answered401 ==
  /\ res'.code = 401
  /\ outbox' = {}
  /\ UNCHANGED <<store, elsewhere>>

\* C22: a request to a protected route that carries no token, an invalid
\* token, a token of an unknown user or of a deactivated user is answered 401
\* and changes no state, whatever the route.
C22_UnauthenticRequestRefused ==
  [][(res'.code = 401 /\ outbox' = {} /\ store' = store /\ elsewhere' = elsewhere)
     \/ \A headers \in ProtectHeaders :
          Authentic(headers)
          \/ /\ \A body \in ProtectExpenseBodies :
                  Protected(headers, LAMBDA user : createExpense(user, body)) => Answered401
             /\ \A id \in ExpenseIds, body \in LedgerDecisions :
                  Protected(headers, LAMBDA user : reviewExpense(user, id, body)) => Answered401
             /\ \A id \in ExpenseIds :
                  Protected(headers, LAMBDA user : deleteExpense(user, id)) => Answered401
             /\ \A outcome \in [ok : {FALSE}] :
                  Protected(headers, LAMBDA user : getRates(TRUE, outcome)) => Answered401]_vars

\* C22 witness: the token of the deactivated account was answered 401 while
\* expenses are stored.
C22_Witness ==
  /\ res.op = "protect"
  /\ res.code = 401
  /\ res.message = "Account is deactivated"
  /\ DOMAIN expenses # {}

(* ------------------------------------------------------------------ *)
(* Access: reads and writes by role, owner and department              *)
(* ------------------------------------------------------------------ *)

AccessBudgetOwners == {"u1", "a1"}

AccessBudgetBodies == {[amount |-> 1000, startDate |-> 0, endDate |-> 1, status |-> "active"]}

AccessSubmitters == {"u1", "a1"}

AccessExpenseBodies == {[amount |-> 750], [amount |-> 750, budget |-> 1]}

AccessActors == {"u1", "m1"}

AccessBudgetStep ==
  /\ nextBudgetId <= MaxBudgets
  /\ \E actor \in AccessBudgetOwners, body \in AccessBudgetBodies : createBudget(actor, body)

AccessSubmitStep ==
  /\ nextExpenseId <= MaxExpenses
  /\ \E actor \in AccessSubmitters, body \in AccessExpenseBodies : createExpense(actor, body)

AccessDecideStep ==
  \E id \in ExpenseIds : reviewExpense("m1", id, [status |-> "approved"])

AccessReadExpenseStep == \E actor \in AccessActors, id \in ExpenseIds : getExpense(actor, id)

AccessListExpensesStep == \E actor \in AccessActors : getExpenses(actor)

AccessUpdateExpenseStep ==
  \E actor \in AccessActors, id \in ExpenseIds : updateExpense(actor, id, [amount |-> 850])

AccessDeleteExpenseStep == \E actor \in AccessActors, id \in ExpenseIds : deleteExpense(actor, id)

AccessReadBudgetStep == \E actor \in AccessActors, id \in BudgetIds : getBudget(actor, id)

AccessListBudgetsStep == \E actor \in AccessActors : getBudgets(actor)

AccessUpdateBudgetStep ==
  \E actor \in AccessActors, id \in BudgetIds : updateBudget(actor, id, [amount |-> 800])

NextAccess ==
  \/ AccessBudgetStep
  \/ AccessSubmitStep
  \/ AccessDecideStep
  \/ AccessReadExpenseStep
  \/ AccessListExpensesStep
  \/ AccessUpdateExpenseStep
  \/ AccessDeleteExpenseStep
  \/ AccessReadBudgetStep
  \/ AccessListBudgetsStep
  \/ AccessUpdateBudgetStep

SpecAccess == Init /\ [][NextAccess]_vars

\* The expenses other than id are what they were, and id is changed or gone.
OnlyExpenseTouched(id) ==
  /\ id \in DOMAIN expenses
  /\ \A e \in DOMAIN expenses \ {id} : e \in DOMAIN expenses' /\ expenses'[e] = expenses[e]

OwnExpense(actor, id) == id \in DOMAIN expenses /\ expenses[id].submittedBy = actor

\* C23: a user-role actor reads only expenses they submitted (one by one, in
\* lists, and inside a budget's data), and an update or delete by that actor
\* either is refused and changes no expense, or touches one expense that the
\* actor submitted and that is pending.
C23_UserLimitedToOwnPendingExpenses ==
  [][\A actor \in {u \in AccessActors : Role(u) = "user"} :
       /\ \A id \in ExpenseIds :
            getExpense(actor, id) => (IsError(res'.code) \/ OwnExpense(actor, id))
       /\ getExpenses(actor) => \A e \in res'.data : OwnExpense(actor, e)
       /\ \A id \in BudgetIds :
            getBudget(actor, id) =>
              (IsError(res'.code) \/ \A e \in res'.expenses : OwnExpense(actor, e))
       /\ \A id \in ExpenseIds :
            updateExpense(actor, id, [amount |-> 850]) =>
              \/ IsError(res'.code) /\ expenses' = expenses
              \/ OwnExpense(actor, id) /\ expenses[id].status = "pending" /\ OnlyExpenseTouched(id)
       /\ \A id \in ExpenseIds :
            deleteExpense(actor, id) =>
              \/ IsError(res'.code) /\ expenses' = expenses
              \/ OwnExpense(actor, id) /\ expenses[id].status = "pending" /\ OnlyExpenseTouched(id)]_vars

\* The expense-side half of C23 without the budget read: it holds.
ExpenseRoutesKeepUserToOwn ==
  [][\A actor \in {u \in AccessActors : Role(u) = "user"} :
       /\ \A id \in ExpenseIds :
            getExpense(actor, id) => (IsError(res'.code) \/ OwnExpense(actor, id))
       /\ getExpenses(actor) => \A e \in res'.data : OwnExpense(actor, e)
       /\ \A id \in ExpenseIds :
            updateExpense(actor, id, [amount |-> 850]) =>
              \/ IsError(res'.code) /\ expenses' = expenses
              \/ OwnExpense(actor, id) /\ expenses[id].status = "pending" /\ OnlyExpenseTouched(id)
       /\ \A id \in ExpenseIds :
            deleteExpense(actor, id) =>
              \/ IsError(res'.code) /\ expenses' = expenses
              \/ OwnExpense(actor, id) /\ expenses[id].status = "pending" /\ OnlyExpenseTouched(id)]_vars

\* The document is the manager's own or of the manager's department.
InManagerScope(actor, principal, department) ==
  principal = actor \/ department = Department(actor)

ExpenseInScope(actor, id) ==
  /\ id \in DOMAIN expenses
  /\ InManagerScope(actor, expenses[id].submittedBy, expenses[id].department)

BudgetInScope(actor, id) ==
  /\ id \in DOMAIN budgets
  /\ InManagerScope(actor, budgets[id].owner, budgets[id].department)

\* C24: a manager is returned, and modifies, only expenses they submitted or
\* of their department and only budgets they own or of their department.
C24_ManagerLimitedToDepartment ==
  [][\A actor \in {u \in AccessActors : Role(u) = "manager"} :
       /\ \A id \in ExpenseIds :
            getExpense(actor, id) => (IsError(res'.code) \/ ExpenseInScope(actor, id))
       /\ getExpenses(actor) => \A e \in res'.data : ExpenseInScope(actor, e)
       /\ \A id \in ExpenseIds :
            updateExpense(actor, id, [amount |-> 850]) =>
              (expenses' = expenses \/ ExpenseInScope(actor, id))
       /\ \A id \in BudgetIds :
            getBudget(actor, id) => (IsError(res'.code) \/ BudgetInScope(actor, id))
       /\ getBudgets(actor) => \A b \in res'.data : BudgetInScope(actor, b)
       /\ \A id \in BudgetIds :
            updateBudget(actor, id, [amount |-> 800]) =>
              (budgets' = budgets \/ BudgetInScope(actor, id))]_vars

\* The list routes alone keep a manager to their department: it holds.
ListsKeepManagerToDepartment ==
  [][\A actor \in {u \in AccessActors : Role(u) = "manager"} :
       /\ getExpenses(actor) => \A e \in res'.data : ExpenseInScope(actor, e)
       /\ getBudgets(actor) => \A b \in res'.data : BudgetInScope(actor, b)]_vars

\* C27: the expense a successful createExpense has stored is pending and has
\* no approvedBy, no approvalDate and no rejectionReason, whatever the body
\* carried and whoever submitted it.
C27_CreatedExpenseStartsPending ==
  [][(res'.op = "createExpense" /\ res'.code = 201) =>
       /\ expenses'[res'.ref].status = "pending"
       /\ expenses'[res'.ref].approvedBy = NoUser
       /\ expenses'[res'.ref].approvalDate = NoDate
       /\ expenses'[res'.ref].rejectionReason = NoReason]_vars

(* ------------------------------------------------------------------ *)
(* Receipts: uploads, receipt entries and file deletions               *)
(* ------------------------------------------------------------------ *)

\* Number of files ever written to the upload directory in one behaviour.
MaxFiles == 2

FileNames == 1 .. MaxFiles

UploadsSubmitters == {"u1", "m1"}

UploadsActors == {"u1", "m1"}

UploadsOutcomes == {"none", "rejected", "stored"}

UploadsSubmitStep ==
  /\ nextExpenseId <= MaxExpenses
  /\ \E actor \in UploadsSubmitters : createExpense(actor, [amount |-> 750])

UploadsPlainStep ==
  /\ uploadDir.made < MaxFiles
  /\ \E actor \in UploadsActors, upload \in UploadsOutcomes : uploadReceipt(actor, upload)

UploadsAddStep ==
  /\ uploadDir.made < MaxFiles
  /\ \E actor \in UploadsActors, id \in ExpenseIds, upload \in UploadsOutcomes :
       addExpenseReceipt(actor, id, upload)

UploadsRemoveStep ==
  \E actor \in UploadsActors, id \in ExpenseIds, receiptId \in FileNames :
    removeExpenseReceipt(actor, id, receiptId)

UploadsDeleteFileStep ==
  \E actor \in UploadsActors, filename \in FileNames : deleteUploadedFile(actor, filename)

NextUploads ==
  \/ UploadsSubmitStep
  \/ UploadsPlainStep
  \/ UploadsAddStep
  \/ UploadsRemoveStep
  \/ UploadsDeleteFileStep

SpecUploads == Init /\ [][NextUploads]_vars

\* C30: every receipt entry of every stored expense names a file that is in
\* the upload directory.
C30_ReceiptsReferToStoredFiles ==
  \A e \in DOMAIN expenses : \A r \in expenses[e].receipts : r.fileName \in uploadDir.files

\* The add-receipt and remove-receipt routes keep every receipt entry's file
\* in place: a step that is not a file deletion preserves C30's condition.
ReceiptRoutesKeepFiles ==
  [][(res'.op = "deleteUploadedFile" \/ ~C30_ReceiptsReferToStoredFiles)
     \/ C30_ReceiptsReferToStoredFiles']_vars

(* ------------------------------------------------------------------ *)
(* Concurrent reviews: requests interleaved at their store operations  *)
(* ------------------------------------------------------------------ *)

\* Number of requests served step by step in one behaviour.
MaxRequests == 2

ConcurrentBudgetBodies == {[amount |-> 1000, startDate |-> 0, endDate |-> 1, status |-> "active"]}

ConcurrentExpenseBodies == {[amount |-> 400, budget |-> 1]}

ConcurrentReviewers == {"m1", "a1"}

ConcurrentBudgetStep ==
  /\ nextBudgetId <= MaxBudgets
  /\ \E body \in ConcurrentBudgetBodies : createBudget("m1", body)

ConcurrentSubmitStep ==
  /\ nextExpenseId <= MaxExpenses
  /\ \E body \in ConcurrentExpenseBodies : createExpense("u1", body)

ConcurrentFindStep ==
  /\ Len(inflight) < MaxRequests
  /\ \E actor \in ConcurrentReviewers, id \in ExpenseIds, body \in LedgerDecisions :
       reviewExpenseFind(actor, id, body)

ConcurrentSaveStep == \E r \in DOMAIN inflight : reviewExpenseSave(r)

ConcurrentNotifyStep == \E r \in DOMAIN inflight : reviewExpenseNotify(r)

ConcurrentAlertStep == \E r \in DOMAIN inflight : reviewExpenseAlert(r)

NextConcurrent ==
  \/ ConcurrentBudgetStep
  \/ ConcurrentSubmitStep
  \/ ConcurrentFindStep
  \/ ConcurrentSaveStep
  \/ ConcurrentNotifyStep
  \/ ConcurrentAlertStep

SpecConcurrent == Init /\ [][NextConcurrent]_vars

\* The alert of budget bid is among the messages
AlertSent(msgs, bid) == \E m \in msgs : m.kind = "budgetAlert" /\ m.ref = bid

\* C25: every alert evaluation that finds the usage at or above the budget's
\* threshold sends an alert, whatever was sent before and whatever other
\* requests are doing.
C25_EveryEvaluationOverThresholdSends ==
  [][\A r \in DOMAIN inflight :
       (inflight[r].pc = "alert" /\ inflight'[r].pc = "done"
          /\ inflight'[r].observed >= inflight[r].budget.alertThreshold)
       => AlertSent(inflight'[r].sent, inflight[r].expense.budget)]_vars

\* C25 witness: two approvals of two expenses were served concurrently around
\* one crossing of the threshold (each read its expense while both were
\* pending) and both sent the alert.
C25_Witness ==
  \E i, j \in DOMAIN inflight :
    /\ i # j
    /\ inflight[i].id # inflight[j].id
    /\ inflight[i].pc = "done" /\ inflight[j].pc = "done"
    /\ inflight[i].code = 200 /\ inflight[j].code = 200
    /\ AlertSent(inflight[i].sent, 1)
    /\ AlertSent(inflight[j].sent, 1)
    /\ inflight[i].observed = inflight[j].observed

\* C26: of the review requests on one expense at most one succeeds.
C26_AtMostOneReviewSucceeds ==
  \A i, j \in DOMAIN inflight :
    (i # j /\ inflight[i].id = inflight[j].id) => ~(inflight[i].code = 200 /\ inflight[j].code = 200)

\* Every request has been answered, and all of them were approvals.
ApprovalsCompleted ==
  /\ inflight # <<>>
  /\ \A r \in DOMAIN inflight : inflight[r].pc = "done" /\ inflight[r].status = "approved"

\* C29: once concurrent approvals on a budget's expenses have all completed,
\* if the budget's usage over all its approved expenses is at or above the
\* threshold, some evaluation observed exactly that usage and sent the alert.
C29_FinalUsageObservedAndAlerted ==
  \A b \in DOMAIN budgets :
    (ApprovalsCompleted
       /\ (\E r \in DOMAIN inflight : inflight[r].code = 200 /\ inflight[r].expense.budget = b)
       /\ checkBudgetAlertFires(budgets, expenses, b))
    => \E r \in DOMAIN inflight :
         /\ inflight[r].code = 200
         /\ inflight[r].observed = checkBudgetAlertPercentage(budgets, expenses, b)
         /\ AlertSent(inflight[r].sent, b)

\* C29 witness: two approvals of two expenses have completed, each wrote after
\* the other had read, and the usage they leave is at the threshold.
C29_Witness ==
  /\ ApprovalsCompleted
  /\ Len(inflight) = 2
  /\ inflight[1].id # inflight[2].id
  /\ inflight[1].code = 200 /\ inflight[2].code = 200
  /\ checkBudgetAlertFires(budgets, expenses, 1)
  /\ \E r \in DOMAIN inflight : inflight[r].observed < budgets[1].alertThreshold

(* ------------------------------------------------------------------ *)
(* Expense creation against budget deletion                            *)
(* ------------------------------------------------------------------ *)

RaceBudgetBodies == {[amount |-> 1000, startDate |-> 0, endDate |-> 1, status |-> "active"]}

RaceExpenseBodies == {[amount |-> 400, budget |-> b] : b \in BudgetIds} \cup {[amount |-> 400]}

RaceDeleters == {"m1", "u1"}

\* The createExpense requests that have not stored their expense yet
RaceCreating == {r \in DOMAIN inflight : inflight[r].op = "createExpense" /\ inflight[r].pc = "create"}

RaceBudgetStep ==
  /\ nextBudgetId <= MaxBudgets
  /\ \E body \in RaceBudgetBodies : createBudget("m1", body)

RaceCheckStep ==
  /\ Len(inflight) < MaxRequests
  /\ nextExpenseId + Cardinality(RaceCreating) <= MaxExpenses
  /\ \E body \in RaceExpenseBodies : createExpenseCheck("u1", body)

RaceCreateStep == \E r \in DOMAIN inflight : createExpenseCreate(r)

RaceFindStep ==
  /\ Len(inflight) < MaxRequests
  /\ \E actor \in RaceDeleters, id \in BudgetIds : deleteBudgetFind(actor, id)

RaceCountStep == \E r \in DOMAIN inflight : deleteBudgetCount(r)

RaceDeleteStep == \E r \in DOMAIN inflight : deleteBudgetDelete(r)

NextRace ==
  \/ RaceBudgetStep
  \/ RaceCheckStep
  \/ RaceCreateStep
  \/ RaceFindStep
  \/ RaceCountStep
  \/ RaceDeleteStep

SpecRace == Init /\ [][NextRace]_vars

\* C28: every stored expense that names a budget names a stored budget.
C28_NoExpenseOfDeletedBudget ==
  \A e \in DOMAIN expenses : expenses[e].budget # NoBudget => expenses[e].budget \in DOMAIN budgets

====
